---- MODULE Spec2Model ----
(***************************************************************************)
(* A model of the training loop of NMTGMinor (onmt/train_utils/trainer.py, *)
(* XETrainer.run and XETrainer.train_epoch): gradient accumulation, the    *)
(* update trigger, the out-of-memory and NaN recovery paths, the periodic  *)
(* and the end-of-epoch checkpoint, the resume from a checkpoint and the   *)
(* warm-up pass.                                                           *)
(*                                                                         *)
(* Gradients are kept symbolically.  The gradient of the summed loss of a  *)
(* batch is a basis element (one per batch of the epoch); the gradient     *)
(* buffers are a linear combination of basis elements, a set of records    *)
(* [pos, kind, coef] with coef an exact rational <<num, den>>.  Floating   *)
(* point rounding is not modelled.                                         *)
(***************************************************************************)
EXTENDS Integers, Sequences, FiniteSets, TLC

\* ------------------------------------------------------------------ bounds

MaxBatches == 3      \* batches of one epoch: 1..MaxBatches
MaxEpochs == 2       \* opt.epochs, and the epoch a given checkpoint was written in: 1..MaxEpochs

\* ------------------------------------------------------- program constants

denom == 3584        \* train_epoch: the fixed loss-scaling denominator
warm_up_denom == 32000   \* warm_up: its own denom

\* -------------------------------------------------------------- input sets

\* The batches a data set is made of: target-token count and sentence count.
Batches ==
    { [tgt_size |-> 50,  size |-> 1],
      [tgt_size |-> 100, size |-> 2],
      [tgt_size |-> 200, size |-> 3] }

BatchSizeUpdates == {0, 150}      \* opt.batch_size_update (0: no token threshold)
UpdateFrequencies == {1, 2}       \* opt.update_frequency
SaveEverys == {0, 2}              \* opt.save_every (0: no periodic checkpoint)

\* What forward + loss + backward of one batch can do (lines 484-541):
\*   ok            finite loss, backward done
\*   nan / inf     NaN / infinite loss, backward done
\*   nan_aux       finite loss, NaN in rev_loss, mirror_loss or rec_loss,
\*                 backward done
\*   oom_forward   RuntimeError 'out of memory' before backward started
\*   oom_backward  RuntimeError 'out of memory' inside backward
\*   error         any other exception
Recoverable == {"ok", "nan", "inf", "oom_forward", "oom_backward"}
OOM == {"oom_forward", "oom_backward"}

\* What warm_up's forward + loss + backward of the largest batch can do.
WarmUpOutcomes == {"ok", "oom_forward", "oom_backward", "error"}

\* opt.max_grad_norm (0: no clipping)
MaxGradNorms == {0, 1}

SeqsUpTo(S, n) == UNION { [1..k -> S] : k \in 1..n }

\* Python's None, and a value that is not None.
None == <<>>
Some(x) == <<x>>

\* --------------------------------------------------------------- rationals

RECURSIVE GCD(_, _)
GCD(a, b) == IF b = 0 THEN a ELSE GCD(b, a % b)

\* The rational n/d (d > 0, n >= 0) in lowest terms.
Rat(n, d) == LET g == GCD(n, d) IN <<n \div g, d \div g>>

\* x / y for rationals x, y with y > 0.
RatDiv(x, y) == Rat(x[1] * y[2], x[2] * y[1])

\* x + k for a rational x and an integer k >= 0.
RatAdd(x, k) == Rat(x[1] + k * x[2], x[2])

\* math.floor of a rational x >= 0.
Floor(x) == x[1] \div x[2]

\* ------------------------------------------------------------------- state

VARIABLES
    opt,                    \* the configuration (run sets start_epoch on a resume)
    batches,                \* the training set in epoch order
    ckpt,                   \* the checkpoint run is called with
    pc,                     \* where run is: "run", "warm_up", "validate", "epoch", "train",
                            \* "returned", "done", "failed", "exited"
    params,                 \* where the model parameters come from
    batch_order,            \* run's batch_order
    iteration,              \* run's iteration
    resume,                 \* run's resume
    runlog,                 \* the calls run has made, in order
    epoch,                  \* the epoch being trained
    itpos,                  \* batches the DataIterator has handed out this epoch
    i,                      \* train_epoch's i
    counter,                \* train_epoch's counter
    num_accumulated_words,  \* train_epoch's num_accumulated_words
    num_accumulated_sents,  \* train_epoch's num_accumulated_sents
    total_words,            \* train_epoch's total_words
    grad,                   \* the gradient buffers of the model parameters
    step,                   \* optim._step
    applied,                \* the gradients the optimizer has stepped with, in order
    streaming_state,        \* 0: None; k > 0: the state of the k-th init_stream() of the epoch
    saved,                  \* the checkpoints written by save, in order
    hist,                   \* what happened to each batch of the epoch so far
    valid_data,             \* the validation set, batch by batch
    additional,             \* additional_data (sizes), additional_data_ratio,
                            \* additional_data_iteration, additional_batch_order
    mode,                   \* the training flag of model and loss function
    evals,                  \* the calls of each eval so far, in order
    files,                  \* the checkpoint files of the run, oldest first
    backward_loss,          \* the loss terms of the last backward call
    call,                   \* the arguments of a function under study
    result                  \* what that function has returned or raised

vars == <<opt, batches, ckpt, pc, params, batch_order, iteration, resume, runlog,
          epoch, itpos, i, counter, num_accumulated_words,
          num_accumulated_sents, total_words, grad, step, applied,
          streaming_state, saved, hist, valid_data, additional, mode, evals,
          files, backward_loss, call, result>>

\* What no step of run changes.
setup == <<valid_data, call, result>>

\* run's local resume state.
runstate == <<params, batch_order, iteration, resume>>

n_samples == Len(batches)

\* data_iterator.end_of_epoch()
EndOfEpoch == itpos = n_samples

\* ------------------------------------------- forward, loss, backward (484-541)

\* The gradient buffers when the try block is left: backward adds the batch's
\* gradient of loss / denom; a backward that runs out of memory has added a part
\* of it to some parameters; a forward that runs out of memory has added nothing.
Backward(g, pos, res) ==
    CASE res = "ok"           -> g \cup {[pos |-> pos, kind |-> "full",    coef |-> Rat(1, denom)]}
      [] res = "nan"          -> g \cup {[pos |-> pos, kind |-> "nan",     coef |-> Rat(1, denom)]}
      [] res = "inf"          -> g \cup {[pos |-> pos, kind |-> "inf",     coef |-> Rat(1, denom)]}
      [] res = "oom_backward" -> g \cup {[pos |-> pos, kind |-> "partial", coef |-> Rat(1, denom)]}
      [] res = "nan_aux"      -> g \cup {[pos |-> pos,
                                          kind |-> IF opt.cuda THEN "nan" ELSE "full",
                                          coef |-> Rat(1, denom)]}
      [] OTHER                -> g

\* The except clause catches a RuntimeError whose text holds 'out of memory'.
IsOOM(res) == res \in OOM

\* Mutant: the handler leaves a NaN in loss instead of 0.
LossValue_NaNOnOOM(res) ==
    CASE res = "ok"  -> "finite"
      [] res = "inf" -> "inf"
      [] OTHER       -> "nan"

\* The local variable loss when line 543 tests it: the handler sets it to 0.
LossValue(res) ==
    CASE res = "ok"  -> "finite"
      [] res = "nan_aux" -> "finite"
      [] res = "nan" -> "nan"
      [] res = "inf" -> "inf"
      [] OTHER       -> "zero"

\* Mutant: the test is one for a non-finite loss (not math.isfinite(loss)).
LossIsNaN_OrInf(loss) == loss \in {"nan", "inf"}

\* loss != loss
LossIsNaN(loss) == loss = "nan"

\* Mutant: init_stream() is called on every pass of the loop.
StreamAfter_EveryBatch(s, oom) == IF opt.streaming THEN s + 1 ELSE s

\* The stream state after the try/except: init_stream() in the handler.
StreamAfter(s, oom) == IF oom /\ opt.streaming THEN s + 1 ELSE s

\* The NaN branch (543-550): what it leaves of the gradient buffers and of the
\* three accumulation counters.
NanGrad(g) == {}
NanWords(w) == 0
NanSents(s) == 0
NanCounter(c) == c

\* -------------------------------------------------- the update (561-591)

\* Mutant: the token threshold must be exceeded, not reached.
UpdateFlag_Strict(words, cnt, idx, n) ==
    IF 0 < opt.batch_size_update /\ opt.batch_size_update < words THEN TRUE
    ELSE IF cnt >= opt.update_frequency /\ 0 >= opt.batch_size_update THEN TRUE
    ELSE IF idx = n - 1 THEN TRUE
    ELSE FALSE

\* update_flag
UpdateFlag(words, cnt, idx, n) ==
    IF 0 < opt.batch_size_update /\ opt.batch_size_update <= words THEN TRUE
    ELSE IF cnt >= opt.update_frequency /\ 0 >= opt.batch_size_update THEN TRUE
    ELSE IF idx = n - 1 THEN TRUE
    ELSE FALSE

\* Mutant: the buffers are not zeroed after the step.
ZeroGrad_Keep(g) == g

\* self.optim.zero_grad(); self.model.zero_grad() after the step (578-579)
ZeroGrad(g) == {}

\* Mutant: normalize_gradient is not looked at.
GradDenom_Fixed(words) == Rat(1, denom)

\* Mutant: grad_denom is not divided by denom.
GradDenom_Unscaled(words) ==
    IF opt.normalize_gradient THEN Rat(words, 1) ELSE Rat(1, 1)

\* grad_denom
GradDenom(words) ==
    IF opt.normalize_gradient THEN Rat(words, denom) ELSE Rat(1, denom)

\* onmt.utils.normalize_gradients: every gradient is divided by grad_denom.
NormalizeGradients(g, d) == { [c EXCEPT !.coef = RatDiv(c.coef, d)] : c \in g }

\* Optim.step: _step after the step.
OptimStepCount(st) == st + 1

\* Mutant: the gradients are clipped whatever max_grad_norm is.
ClipGradNorm_Always(g) == [on |-> TRUE, input |-> g]

\* if self.opt.max_grad_norm > 0: clip_grad_norm_(...): whether the buffers are
\* scaled down to the norm bound, and the buffers the norm is taken of.
ClipGradNorm(g) ==
    IF opt.max_grad_norm > 0 THEN [on |-> TRUE, input |-> g]
    ELSE [on |-> FALSE, input |-> {}]

\* Optim.step: one more step, made with the gradients in the buffers (g, scaled
\* down by the clipping when clip.on).
OptimStep(hist_applied, g, d, clip) ==
    Append(hist_applied, [grad |-> g, grad_denom |-> d, clip |-> clip])

\* Mutant: a checkpoint is due when the step count is a multiple of save_every.
SaveDue_OnMultiple(num_updates) ==
    opt.save_every > 0 /\ num_updates % opt.save_every = 0

\* opt.save_every > 0 and num_updates % opt.save_every == -1 % opt.save_every
SaveDue(num_updates) ==
    opt.save_every > 0 /\ num_updates % opt.save_every = (-1) % opt.save_every

\* ep = float(epoch) - 1. + ((float(i) + 1.) / n_samples)
FractionalEpoch(e, idx, n) == Rat((e - 1) * n + idx + 1, n)

\* save(epoch, valid_ppl, batch_order, iteration): the checkpoint it writes.
Checkpoint(ep, it, st) == [epoch |-> ep, iteration |-> it, step |-> st]

\* --------------------------------------------- run before its epochs (649-719)

\* One call run makes: its name, the epoch it belongs to (0: before the loop
\* over the epochs) and, for a save, the iteration saved.
Event(name, e, k) == [ev |-> name, epoch |-> e, i |-> k]

\* run(checkpoint=None)
NoCheckpoint ==
    [given |-> FALSE, epoch |-> Rat(0, 1), iteration |-> 0, step |-> 0,
     batch_order |-> None, has_prec |-> FALSE, fp16 |-> FALSE,
     fp16_mixed |-> FALSE, has_amp |-> FALSE, additional |-> None]

\* A checkpoint file as run reads it: 'epoch', 'iteration', 'batch_order', the
\* step count in 'optim', whether 'opt' is there with an fp16_mixed attribute
\* (has_prec) and its fp16 / fp16_mixed, whether 'amp' is there.
CheckpointFile(ep, k, st, order, prec) ==
    [given |-> TRUE, epoch |-> ep, iteration |-> k, step |-> st,
     batch_order |-> order, has_prec |-> prec.has_prec, fp16 |-> prec.fp16,
     fp16_mixed |-> prec.fp16_mixed, has_amp |-> prec.has_amp,
     additional |-> Some([iteration |-> <<>>, order |-> <<>>])]

\* The checkpoints save writes inside epoch e of a set of n batches (589-591)
\* and at its end (736).
PeriodicCheckpoints(n, es, orders, precs) ==
    { CheckpointFile(FractionalEpoch(e, k, n), k, 1, o, p) :
          e \in es, k \in 0..(n - 1), o \in orders, p \in precs }

EndOfEpochCheckpoints(es, precs) ==
    { CheckpointFile(Rat(e, 1), 0 - 1, 2, None, p) : e \in es, p \in precs }

\* Mutant: the epoch of the checkpoint is trained again.
StartEpoch_Floor(c) == Floor(c.epoch)

\* opt.start_epoch = int(math.floor(float(checkpoint['epoch'] + 1)))
StartEpoch(c) == Floor(RatAdd(c.epoch, 1))

\* Mutant: the counters and the batch order are restored whatever the flag is.
RestoresTrainingState_Always(c) == c.given

\* if checkpoint is not None: ... if not opt.reset_optim: the branch that
\* restores the optimizer, the epoch, the iteration and the batch order.
RestoresTrainingState(c) == c.given /\ ~opt.reset_optim

\* Mutant: the precision state is loaded whenever the checkpoint has one.
LoadsAmp_WheneverThere(c) == RestoresTrainingState(c) /\ c.has_amp

\* amp.load_state_dict(checkpoint['amp']) is reached (664-671).
LoadsAmp(c) ==
    /\ RestoresTrainingState(c)
    /\ c.has_prec
    /\ opt.fp16_mixed = c.fp16_mixed /\ opt.fp16 = c.fp16
    /\ c.has_amp

\* Mutant: the parameters are initialised on every run.
InitializesParameters_Always(c) == TRUE

\* init_model_parameters(model, opt) is reached (697-703).
InitializesParameters(c) == ~c.given

\* The calls of run's checkpoint block, in order.
LoadEvents(c) ==
    IF c.given
    THEN <<Event("model.load_state_dict", 0, 0)>>
         \o (IF RestoresTrainingState(c) THEN <<Event("optim.load_state_dict", 0, 0)>> ELSE <<>>)
         \o (IF LoadsAmp(c) THEN <<Event("amp.load_state_dict", 0, 0)>> ELSE <<>>)
    ELSE <<>>

\* Mutant: warm_up leaves the buffers as it found them.
WarmUpBackward_Nothing(g, res) == g

\* The gradient buffers when warm_up's try block is left: zero_grad, then the
\* backward of loss / denom of the largest batch (position -1: it is no batch
\* of the epoch's iterator).
WarmUpBackward(g, res) ==
    CASE res = "ok"           -> {[pos |-> 0 - 1, kind |-> "full",    coef |-> Rat(1, warm_up_denom)]}
      [] res = "oom_backward" -> {[pos |-> 0 - 1, kind |-> "partial", coef |-> Rat(1, warm_up_denom)]}
      [] OTHER                -> {}

\* Mutant: an out-of-memory error is reported and then raised as well.
WarmUpRaises_AlsoOOM(res) == res /= "ok"

\* warm_up's except clause: anything but an out-of-memory error is raised
\* again.
WarmUpRaises(res) == ~IsOOM(res) /\ res /= "ok"

\* What warm_up prints after the try block: the warning, or the success line;
\* nothing when the error is raised again.
WarmUpPrints(res) ==
    IF IsOOM(res) THEN <<Event("print: warning, out-of-memory in warming up", 0, 0)>>
    ELSE IF res = "ok" THEN <<Event("print: warming up successfully", 0, 0)>>
    ELSE <<>>

\* Mutant: train_epoch starts on the buffers as they are.
ModelZeroGrad_Keep(g) == g

\* self.model.zero_grad() at the start of train_epoch (415)
ModelZeroGrad(g) == {}

\* Mutant: the checkpoint is written before the validation.
EpochEndEvents_SaveFirst(e) == <<Event("save", e, 0 - 1), Event("eval", e, 0)>>

\* The calls run makes after train_epoch has returned (728-736).
EpochEndEvents(e) == <<Event("eval", e, 0), Event("save", e, 0 - 1)>>

\* ------------------------------------------------------------- validation

\* A validation set of one batch.
OneValidBatch == <<[tgt_size |-> 100, size |-> 2]>>

\* A call eval makes; b is the position of the validation batch, -1 if none.
Call(name, b) == [call |-> name, batch |-> b]

\* Mutant: eval returns without switching back to training mode.
EvalCalls_NoRestore(m, streaming) ==
    <<Call("model.eval", 0 - 1), Call("loss_function.eval", 0 - 1),
      Call("model.reset_states", 0 - 1)>>
    \o (IF streaming THEN <<Call("model.init_stream", 0 - 1)>> ELSE <<>>)
    \o [k \in 1..m |-> Call("forward", k - 1)]

\* The calls of eval on a validation set of m batches (343-402): evaluation
\* mode, the recurrent state reset, one forward pass per batch under
\* torch.no_grad() until the iterator is at its end, training mode.
EvalCalls(m, streaming) ==
    <<Call("model.eval", 0 - 1), Call("loss_function.eval", 0 - 1),
      Call("model.reset_states", 0 - 1)>>
    \o (IF streaming THEN <<Call("model.init_stream", 0 - 1)>> ELSE <<>>)
    \o [k \in 1..m |-> Call("forward", k - 1)]
    \o <<Call("model.train", 0 - 1), Call("loss_function.train", 0 - 1)>>

\* The training flags after one call.
ModeAfterCall(md, c) ==
    CASE c.call = "model.eval"          -> [md EXCEPT !.model = "eval"]
      [] c.call = "model.train"         -> [md EXCEPT !.model = "train"]
      [] c.call = "loss_function.eval"  -> [md EXCEPT !.loss_function = "eval"]
      [] c.call = "loss_function.train" -> [md EXCEPT !.loss_function = "train"]
      [] OTHER                          -> md

RECURSIVE ModeAfter(_, _)
\* The training flags after a sequence of calls.
ModeAfter(md, calls) ==
    IF calls = <<>> THEN md
    ELSE ModeAfter(ModeAfterCall(md, Head(calls)), Tail(calls))

\* -------------------------------------------------------- checkpoint files

\* The retention counts of the runs that write checkpoints.
KeepSaveFiles == {1, 2, 3}

\* Mutant: the precision state is written under 'precision_state'.
CheckpointKeys_PrecisionState ==
    {"model", "dicts", "opt", "epoch", "iteration", "batch_order", "optim",
     "additional_batch_order", "additional_data_iteration", "precision_state"}

\* The keys of the dictionary save writes (319-330).
CheckpointKeys ==
    {"model", "dicts", "opt", "epoch", "iteration", "batch_order", "optim",
     "additional_batch_order", "additional_data_iteration", "amp"}

\* The key under which save stores amp.state_dict() (329).
PrecisionKeyWritten == "amp"

\* The key from which run loads the precision state (670-671).
PrecisionKeyRead == "amp"

\* math.exp(min(valid_loss, 100)) of the validation loss (585-586, 732-733):
\* a function of the parameters, which change with every optimizer step.
ValidPpl(st) == [of_params_after_step |-> st]

\* '%.2f' % epoch: the hundredths nearest to the rational ep.
Hundredths(ep) == (200 * ep[1] + ep[2]) \div (2 * ep[2])

\* Mutant: the file name holds the perplexity and a constant for the epoch.
FileName_PplOnly(ppl, ep) == [ppl |-> ppl, e |-> 0]

\* '%s_ppl_%.6f_e%.2f.pt' % (opt.save_model, valid_ppl, epoch) (332)
FileName(ppl, ep) == [ppl |-> ppl, e |-> Hundredths(ep)]

\* torch.save(checkpoint, file_name) (334): a file of that name is replaced.
TorchSave(fs, f) == SelectSeq(fs, LAMBDA x : x.name # f.name) \o <<f>>

\* checkpoint_paths(checkpoint_dir): the names of the run's checkpoint files,
\* the most recent first.
CheckpointPaths(fs) == [k \in 1..Len(fs) |-> fs[Len(fs) + 1 - k].name]

\* Mutant: one file more than opt.keep_save_files is kept.
RemoveOld_KeepOneMore(fs, paths, keep) ==
    SelectSeq(fs, LAMBDA x :
        \A k \in (keep + 2)..Len(paths) : paths[k] # x.name)

\* for save_file in existed_save_files[opt.keep_save_files:]: os.remove (339-341)
RemoveOld(fs, paths, keep) ==
    SelectSeq(fs, LAMBDA x :
        \A k \in (keep + 1)..Len(paths) : paths[k] # x.name)

\* save(epoch, valid_ppl, ...) (309-341) as the n-th call of the run: the
\* file is written, then all but the first opt.keep_save_files paths are
\* removed.
Save(fs, ep, ppl, n) ==
    LET written == TorchSave(fs, [name |-> FileName(ppl, ep),
                                  keys |-> CheckpointKeys, nth |-> n])
    IN RemoveOld(written, CheckpointPaths(written), opt.keep_save_files)

\* -------------------------------------------------------- additional data

\* No additional data: self.additional_data = [] (46-47).
NoAdditionalData ==
    [data |-> <<>>, ratio |-> <<>>, iteration |-> <<>>, order |-> <<>>]

\* init_additional_data (741-747): every dataset at iteration 0 with its
\* first order.
InitAdditionalData(a) ==
    [a EXCEPT !.iteration = [j \in 1..Len(a.data) |-> 0],
              !.order = [j \in 1..Len(a.data) |-> 1]]

\* The datasets of which pass i of the loop takes a batch (457-460):
\* additional_data_ratio[0] is a.ratio[1].
AdditionalDataDue(a, k) ==
    IF Len(a.data) > 0 /\ a.ratio[1] # 0 /\ k % a.ratio[1] = 0
    THEN { j \in 1..Len(a.data) : a.ratio[j + 1] > 0 }
    ELSE {}

\* The block raises: a ZeroDivisionError from i % 0 (457-458), or a NameError
\* from batches.append (466), `batches` being assigned nowhere (455 is a
\* comment).
AdditionalDataRaises(a, k) ==
    \/ Len(a.data) > 0 /\ a.ratio[1] = 0
    \/ AdditionalDataDue(a, k) # {}

\* The additional-data state when the block raises: the first dataset due
\* is reset if it was exhausted (461-464); line 467 is not reached.
AdditionalDataBlock(a, k) ==
    IF AdditionalDataDue(a, k) = {} THEN a
    ELSE LET j == CHOOSE x \in AdditionalDataDue(a, k) :
                      \A y \in AdditionalDataDue(a, k) : x <= y
         IN IF a.iteration[j] = a.data[j]
            THEN [a EXCEPT !.iteration[j] = 0, !.order[j] = @ + 1]
            ELSE a

\* ------------------------------------------------------- the backward loss

\* Outcomes of a pass in which backward is called.
ReachesBackward(res) == res \in {"ok", "nan", "nan_aux", "inf", "oom_backward"}

\* full_loss (497-517, 203-215): loss and every enabled auxiliary loss, each
\* divided by d.
FullLoss(d) ==
    {[term |-> "loss", div |-> d]}
    \cup (IF opt.mirror_loss
          THEN {[term |-> "rev_loss", div |-> d], [term |-> "mirror_loss", div |-> d]}
          ELSE {})
    \cup (IF opt.reconstruct THEN {[term |-> "rec_loss", div |-> d]} ELSE {})

\* What train_epoch and warm_up add up.
LossTerms == FullLoss(denom)

WarmUpLossTerms == FullLoss(warm_up_denom)

\* The loss backward is called on (526-530, 241-244): amp scales full_loss on
\* a GPU, loss.backward() on the CPU.
BackwardLoss(full) == IF opt.cuda THEN full ELSE { t \in full : t.term = "loss" }

\* ----------------------------------------------------------------- actions

\* The trainer after construction, run not yet called.
ConstructedTrainer ==
    /\ pc = "run"
    /\ params = "constructed"
    /\ batch_order = None
    /\ iteration = None
    /\ resume = FALSE
    /\ runlog = <<>>
    /\ epoch = 0
    /\ itpos = 0
    /\ i = 0
    /\ counter = 0
    /\ num_accumulated_words = 0
    /\ num_accumulated_sents = 0
    /\ total_words = 0
    /\ grad = {}
    /\ step = 0
    /\ applied = <<>>
    /\ streaming_state = 0
    /\ saved = <<>>
    /\ hist = <<>>
    /\ mode = [model |-> "train", loss_function |-> "train"]
    /\ evals = <<>>
    /\ files = <<>>
    /\ backward_loss = {}

\* The same, no function under study.
Constructed ==
    /\ ConstructedTrainer
    /\ call = None
    /\ result = None

\* One epoch on the CPU from freshly initialised parameters, every
\* accumulation setting, every outcome of a batch.
Init ==
    /\ opt \in [batch_size_update : BatchSizeUpdates,
                update_frequency : UpdateFrequencies,
                normalize_gradient : BOOLEAN,
                streaming : BOOLEAN,
                save_every : SaveEverys,
                start_epoch : {1},
                epochs : {1},
                max_grad_norm : {0},
                reset_optim : {FALSE},
                fp16 : {FALSE},
                fp16_mixed : {FALSE},
                cuda : {FALSE},
                memory_profiling : {FALSE},
                mirror_loss : {FALSE},
                reconstruct : {FALSE},
                keep_save_files : {3}]
    /\ batches \in SeqsUpTo(Batches, MaxBatches)
    /\ ckpt = NoCheckpoint
    /\ valid_data = OneValidBatch
    /\ additional = NoAdditionalData
    /\ Constructed

\* run, up to the warm-up (649-709): the checkpoint is loaded or the
\* parameters are initialised, and the resume state is set.
RunStart ==
    /\ pc = "run"
    /\ pc' = "warm_up"
    /\ params' = (IF InitializesParameters(ckpt) THEN "initialized"
                  ELSE IF ckpt.given THEN "checkpoint"
                  ELSE params)
    /\ runlog' = runlog \o LoadEvents(ckpt)
                        \o (IF InitializesParameters(ckpt)
                            THEN <<Event("init_model_parameters", 0, 0)>> ELSE <<>>)
    /\ IF RestoresTrainingState(ckpt)
       THEN /\ step' = ckpt.step                   \* self.optim.load_state_dict
            /\ batch_order' = ckpt.batch_order
            /\ iteration' = Some(ckpt.iteration + 1)
            /\ opt' = [opt EXCEPT !.start_epoch = StartEpoch(ckpt)]
            /\ resume' = TRUE
       ELSE /\ batch_order' = None
            /\ iteration' = Some(0)
            /\ resume' = FALSE
            /\ UNCHANGED <<opt, step>>
    /\ additional' = (IF RestoresTrainingState(ckpt) /\ Len(additional.data) > 0
                         /\ ckpt.additional # None
                      THEN [additional EXCEPT !.iteration = ckpt.additional[1].iteration,
                                              !.order = ckpt.additional[1].order]
                      ELSE InitAdditionalData(additional))
    /\ UNCHANGED <<batches, ckpt, epoch, itpos, i, counter, num_accumulated_words,
                   num_accumulated_sents, total_words, grad, applied,
                   streaming_state, saved, hist>>
    /\ UNCHANGED <<setup, mode, evals, files, backward_loss>>

\* if self.cuda: self.warm_up() (711-713, 164-264): forward, loss and backward
\* of the largest batch end with `res`; an out-of-memory error is a warning,
\* any other error is raised again, memory profiling ends in exit().
RunWarmUp(res) ==
    /\ pc = "warm_up"
    /\ IF opt.cuda
       THEN /\ grad' = WarmUpBackward(grad, res)
            /\ runlog' = Append(runlog, Event("warm_up", 0, 0)) \o WarmUpPrints(res)
            /\ pc' = (IF WarmUpRaises(res) THEN "failed"
                      ELSE IF opt.memory_profiling THEN "exited"
                      ELSE "validate")
       ELSE /\ res = "ok"
            /\ pc' = "validate"
            /\ UNCHANGED <<grad, runlog>>
    /\ backward_loss' = (IF opt.cuda /\ ReachesBackward(res)
                         THEN BackwardLoss(WarmUpLossTerms) ELSE backward_loss)
    /\ UNCHANGED <<opt, batches, ckpt, runstate, epoch, itpos, i, counter,
                   num_accumulated_words, num_accumulated_sents, total_words,
                   step, applied, streaming_state, saved, hist>>
    /\ UNCHANGED <<setup, additional, mode, evals, files>>

\* The validation before the first epoch and the entry into the loop over
\* range(opt.start_epoch, opt.start_epoch + opt.epochs) (715-721).
RunInitialEval ==
    /\ pc = "validate"
    /\ runlog' = Append(runlog, Event("eval", 0, 0))
    /\ IF opt.epochs > 0
       THEN pc' = "epoch" /\ epoch' = opt.start_epoch
       ELSE pc' = "done" /\ epoch' = epoch
    /\ evals' = Append(evals, EvalCalls(Len(valid_data), opt.streaming))
    /\ mode' = ModeAfter(mode, evals'[Len(evals')])
    /\ UNCHANGED <<opt, batches, ckpt, runstate, itpos, i, counter,
                   num_accumulated_words, num_accumulated_sents, total_words,
                   grad, step, applied, streaming_state, saved, hist>>
    /\ UNCHANGED <<setup, additional, files, backward_loss>>

\* train_epoch(epoch, resume, batch_order, iteration), up to its loop over the
\* batches (404-449): the three resume arguments are not read, a new iterator
\* starts at the first batch.
TrainEpochBegin ==
    /\ pc = "epoch"
    /\ pc' = "train"
    /\ runlog' = Append(runlog, Event("train_epoch", epoch, 0))
    /\ grad' = ModelZeroGrad(grad)
    /\ itpos' = 0
    /\ i' = 0
    /\ counter' = 0
    /\ num_accumulated_words' = 0
    /\ num_accumulated_sents' = 0
    /\ total_words' = 0
    /\ streaming_state' = (IF opt.streaming THEN 1 ELSE 0)
    /\ hist' = <<>>
    /\ mode' = [model |-> "train", loss_function |-> "train"]
    /\ UNCHANGED <<opt, batches, ckpt, runstate, epoch, step, applied, saved>>
    /\ UNCHANGED <<setup, additional, evals, files, backward_loss>>

\* One pass of the loop over the batches (451-644) in which forward, loss and
\* backward end with `res`, an outcome the loop body survives.
TrainStep(res) ==
    /\ pc = "train"
    /\ ~EndOfEpoch
    /\ ~AdditionalDataRaises(additional, i)
    /\ LET batch  == batches[itpos + 1]
           g1     == Backward(grad, itpos, res)
           oom1   == IsOOM(res)
           loss   == LossValue(res)
           isnan  == LossIsNaN(loss)
           oom    == oom1 \/ isnan
           g2     == IF isnan THEN NanGrad(g1) ELSE g1
           w2     == IF isnan THEN NanWords(num_accumulated_words) ELSE num_accumulated_words
           s2     == IF isnan THEN NanSents(num_accumulated_sents) ELSE num_accumulated_sents
           c2     == IF isnan THEN NanCounter(counter) ELSE counter
           c3     == c2 + 1
           w3     == w2 + batch.tgt_size
           s3     == s2 + batch.size
           flag   == UpdateFlag(w3, c3, i, n_samples)
           gd     == GradDenom(w3)
           gn     == NormalizeGradients(g2, gd)
       IN
       /\ itpos' = itpos + 1
       /\ streaming_state' = StreamAfter(streaming_state, oom1)
       /\ IF oom
          THEN /\ grad' = g2
               /\ counter' = c2
               /\ num_accumulated_words' = w2
               /\ num_accumulated_sents' = s2
               /\ hist' = Append(hist, [pos |-> itpos, res |-> res, upd |-> FALSE])
               /\ UNCHANGED <<i, total_words, step, applied, saved, runlog>>
               /\ UNCHANGED <<mode, evals, files>>
          ELSE /\ hist' = Append(hist, [pos |-> itpos, res |-> res, upd |-> flag])
               /\ total_words' = total_words + batch.tgt_size
               /\ i' = i + 1
               /\ IF flag
                  THEN /\ applied' = OptimStep(applied, gn, gd, ClipGradNorm(gn))
                       /\ step' = OptimStepCount(step)
                       /\ grad' = ZeroGrad(g2)
                       /\ counter' = 0
                       /\ num_accumulated_words' = 0
                       /\ num_accumulated_sents' = 0
                       /\ saved' = (IF SaveDue(step')
                                    THEN Append(saved, Checkpoint(FractionalEpoch(epoch, i, n_samples), i, step'))
                                    ELSE saved)
                       /\ runlog' = (IF SaveDue(step')
                                     THEN runlog \o <<Event("eval", epoch, 0), Event("save", epoch, i)>>
                                     ELSE runlog)
                       /\ evals' = (IF SaveDue(step')
                                    THEN Append(evals, EvalCalls(Len(valid_data), opt.streaming))
                                    ELSE evals)
                       /\ mode' = (IF SaveDue(step')
                                   THEN ModeAfter(mode, evals'[Len(evals')]) ELSE mode)
                       /\ files' = (IF SaveDue(step')
                                    THEN Save(files, FractionalEpoch(epoch, i, n_samples),
                                              ValidPpl(step'), Len(saved'))
                                    ELSE files)
                  ELSE /\ grad' = g2
                       /\ counter' = c3
                       /\ num_accumulated_words' = w3
                       /\ num_accumulated_sents' = s3
                       /\ UNCHANGED <<step, applied, saved, runlog>>
                       /\ UNCHANGED <<mode, evals, files>>
    /\ backward_loss' = (IF ReachesBackward(res)
                         THEN BackwardLoss(LossTerms) ELSE backward_loss)
    /\ pc' = "train"
    /\ UNCHANGED <<opt, batches, ckpt, runstate, epoch>>
    /\ UNCHANGED <<setup, additional>>

\* Mutant: the handler skips the batch whatever the exception is.
TrainStepRaise_Swallowed ==
    /\ pc = "train"
    /\ ~EndOfEpoch
    /\ pc' = "train"
    /\ itpos' = itpos + 1
    /\ hist' = Append(hist, [pos |-> itpos, res |-> "error", upd |-> FALSE])
    /\ UNCHANGED <<opt, batches, ckpt, runstate, runlog, epoch, i, counter,
                   num_accumulated_words,
                   num_accumulated_sents, total_words, grad, step, applied,
                   streaming_state, saved>>
    /\ UNCHANGED <<setup, additional, mode, evals, files, backward_loss>>

\* A pass in which forward, loss or backward raises anything else: the handler
\* raises it again (540-541) and it leaves train_epoch and run.
TrainStepRaise ==
    /\ pc = "train"
    /\ ~EndOfEpoch
    /\ ~AdditionalDataRaises(additional, i)
    /\ pc' = "failed"
    /\ itpos' = itpos + 1
    /\ hist' = Append(hist, [pos |-> itpos, res |-> "error", upd |-> FALSE])
    /\ UNCHANGED <<opt, batches, ckpt, runstate, runlog, epoch, i, counter,
                   num_accumulated_words,
                   num_accumulated_sents, total_words, grad, step, applied,
                   streaming_state, saved>>
    /\ UNCHANGED <<setup, additional, mode, evals, files, backward_loss>>

\* The loop ends with the iterator and train_epoch returns
\* total_loss / total_words (451, 646): a ZeroDivisionError when every batch
\* of the epoch was skipped.
TrainEpochReturn ==
    /\ pc = "train"
    /\ EndOfEpoch
    /\ pc' = (IF total_words = 0 THEN "failed" ELSE "returned")
    /\ runlog' = (IF total_words = 0 THEN runlog
                  ELSE Append(runlog, Event("train_epoch returns", epoch, 0)))
    /\ UNCHANGED <<opt, batches, ckpt, runstate, epoch, itpos, i, counter,
                   num_accumulated_words,
                   num_accumulated_sents, total_words, grad, step, applied,
                   streaming_state, saved, hist>>
    /\ UNCHANGED <<setup, additional, mode, evals, files, backward_loss>>

\* The rest of the epoch in run (728-739): validation, the end-of-epoch
\* checkpoint, the resume state cleared, then the next epoch of
\* range(start_epoch, start_epoch + epochs).
RunEpochEnd ==
    /\ pc = "returned"
    /\ runlog' = runlog \o EpochEndEvents(epoch)
    /\ saved' = Append(saved, Checkpoint(Rat(epoch, 1), -1, step))
    /\ batch_order' = None
    /\ iteration' = None
    /\ resume' = FALSE
    /\ IF epoch + 1 < opt.start_epoch + opt.epochs
       THEN pc' = "epoch" /\ epoch' = epoch + 1
       ELSE pc' = "done" /\ epoch' = epoch
    /\ evals' = Append(evals, EvalCalls(Len(valid_data), opt.streaming))
    /\ mode' = ModeAfter(mode, evals'[Len(evals')])
    /\ files' = Save(files, Rat(epoch, 1), ValidPpl(step), Len(saved'))
    /\ UNCHANGED <<opt, batches, ckpt, params, itpos, i, counter,
                   num_accumulated_words,
                   num_accumulated_sents, total_words, grad, step, applied,
                   streaming_state, hist>>
    /\ UNCHANGED <<setup, additional, backward_loss>>

Next ==
    \/ RunStart
    \/ \E res \in WarmUpOutcomes : RunWarmUp(res)
    \/ RunInitialEval
    \/ TrainEpochBegin
    \/ \E res \in Recoverable : TrainStep(res)
    \/ TrainStepRaise
    \/ TrainEpochReturn
    \/ RunEpochEnd

Spec == Init /\ [][Next]_vars

\* ----------------------------------------------- the update with clipping

\* One epoch as in Init, without streaming and periodic checkpoints, with
\* and without gradient clipping.
InitUpdate ==
    /\ opt \in [batch_size_update : BatchSizeUpdates,
                update_frequency : UpdateFrequencies,
                normalize_gradient : BOOLEAN,
                streaming : {FALSE},
                save_every : {0},
                start_epoch : {1},
                epochs : {1},
                max_grad_norm : MaxGradNorms,
                reset_optim : {FALSE},
                fp16 : {FALSE},
                fp16_mixed : {FALSE},
                cuda : {FALSE},
                memory_profiling : {FALSE},
                mirror_loss : {FALSE},
                reconstruct : {FALSE},
                keep_save_files : {3}]
    /\ batches \in SeqsUpTo(Batches, MaxBatches)
    /\ ckpt = NoCheckpoint
    /\ valid_data = OneValidBatch
    /\ additional = NoAdditionalData
    /\ Constructed

SpecUpdate == InitUpdate /\ [][Next]_vars

\* --------------------------------------------- whole runs, fresh and resumed

\* A training set of equal batches.
UniformBatches == { [tgt_size |-> 100, size |-> 2] }

\* The batch outcomes of the runs below.
RunOutcomes == {"ok", "nan"}

\* A saved batch order: the positions of the epoch in reverse.
ReverseOrder(n) == [k \in 1..n |-> n - k]

\* The precision part of a checkpoint written with the current configuration.
SamePrecision ==
    [has_prec |-> TRUE, fp16 |-> FALSE, fp16_mixed |-> FALSE, has_amp |-> TRUE]

\* Every precision part a checkpoint file can have.
Precisions ==
    [has_prec : BOOLEAN, fp16 : BOOLEAN, fp16_mixed : BOOLEAN, has_amp : BOOLEAN]

NextRun ==
    \/ RunStart
    \/ \E res \in WarmUpOutcomes : RunWarmUp(res)
    \/ RunInitialEval
    \/ TrainEpochBegin
    \/ \E res \in RunOutcomes : TrainStep(res)
    \/ TrainStepRaise
    \/ TrainEpochReturn
    \/ RunEpochEnd

\* Runs of 1..MaxEpochs epochs on the CPU, fresh or resumed (reset flag unset)
\* from a periodic or an end-of-epoch checkpoint.
InitRun ==
    /\ opt \in [batch_size_update : {0},
                update_frequency : UpdateFrequencies,
                normalize_gradient : {TRUE},
                streaming : {FALSE},
                save_every : SaveEverys,
                start_epoch : {1},
                epochs : 1..MaxEpochs,
                max_grad_norm : {0},
                reset_optim : {FALSE},
                fp16 : {FALSE},
                fp16_mixed : {FALSE},
                cuda : {FALSE},
                memory_profiling : {FALSE},
                mirror_loss : {FALSE},
                reconstruct : {FALSE},
                keep_save_files : {3}]
    /\ batches \in SeqsUpTo(UniformBatches, MaxBatches)
    /\ ckpt \in {NoCheckpoint}
                \cup PeriodicCheckpoints(Len(batches), 1..MaxEpochs,
                                         {None, ReverseOrder(Len(batches))}, {SamePrecision})
                \cup EndOfEpochCheckpoints(1..MaxEpochs, {SamePrecision})
    /\ valid_data = OneValidBatch
    /\ additional = NoAdditionalData
    /\ Constructed

SpecRun == InitRun /\ [][NextRun]_vars

\* Runs of one epoch, with and without a GPU, fresh or resumed from a
\* checkpoint of the first epoch, with every reset flag, precision mode and
\* precision part of the checkpoint.
InitResume ==
    /\ opt \in [batch_size_update : {0},
                update_frequency : {1},
                normalize_gradient : {TRUE},
                streaming : {FALSE},
                save_every : {0},
                start_epoch : {1},
                epochs : {1},
                max_grad_norm : {0},
                reset_optim : BOOLEAN,
                fp16 : BOOLEAN,
                fp16_mixed : BOOLEAN,
                cuda : BOOLEAN,
                memory_profiling : BOOLEAN,
                mirror_loss : {FALSE},
                reconstruct : {FALSE},
                keep_save_files : {3}]
    /\ batches \in SeqsUpTo(UniformBatches, MaxBatches)
    /\ ckpt \in {NoCheckpoint}
                \cup PeriodicCheckpoints(Len(batches), {1}, {None}, Precisions)
                \cup EndOfEpochCheckpoints({1}, Precisions)
    /\ valid_data = OneValidBatch
    /\ additional = NoAdditionalData
    /\ Constructed

SpecResume == InitResume /\ [][NextRun]_vars

\* ------------------------------------------------ reading the epoch's history

\* Outcomes after which the batch is counted (oom stays False).
NotSkipped == {"ok", "inf"}

\* The k-th batch of the epoch (hist[k] is what happened to it).
BatchOf(k) == batches[hist[k].pos + 1]

\* None of the first k batches was skipped or raised.
NoSkip(k) == \A j \in 1..k : hist[j].res = "ok"

\* The last batch before the k-th on which an update was made; 0 if none.
PrevUpdate(k) ==
    LET U == { j \in 1..(k - 1) : hist[j].upd }
    IN IF U = {} THEN 0 ELSE CHOOSE j \in U : \A m \in U : m <= j

\* The counted batches after the last update before the k-th, up to the k-th.
SinceUpdate(k) == { j \in (PrevUpdate(k) + 1)..k : hist[j].res \in NotSkipped }

RECURSIVE TokensOf(_)
TokensOf(S) ==
    IF S = {} THEN 0
    ELSE LET j == CHOOSE x \in S : TRUE
         IN BatchOf(j).tgt_size + TokensOf(S \ {j})

\* The counted batches after the last update or NaN reset before the k-th, up
\* to the k-th.
SinceZeroing(k) ==
    LET Z == { j \in 1..(k - 1) : hist[j].upd \/ hist[j].res = "nan" }
        z == IF Z = {} THEN 0 ELSE CHOOSE j \in Z : \A m \in Z : m <= j
    IN { j \in (z + 1)..k : hist[j].res \in NotSkipped }

\* The batches on which an update was made, among the first k.
UpdatesUpTo(k) == { j \in 1..k : hist[j].upd }

\* The state is the one a pass of the loop over the batches has just left.
AfterBatch == pc = "train" /\ hist /= <<>>

LastEvent == hist[Len(hist)]

TgtSizes(bs) == [k \in 1..Len(bs) |-> bs[k].tgt_size]

\* ------------------------------------------------------------------ claims

\* C1: with a token threshold T > 0 and no skipped batch, an update is made on
\* a batch exactly when the target tokens accumulated since the previous update,
\* that batch included, are >= T, or the batch is the last of the epoch; for
\* the token counts [100, 50, 200] and T = 150 there are exactly two updates,
\* on batch 2 and on batch 3.
C1_UpdateOnTokenThreshold ==
    opt.batch_size_update > 0 =>
        /\ \A k \in 1..Len(hist) :
              NoSkip(k) =>
                  (hist[k].upd <=> (\/ TokensOf(SinceUpdate(k)) >= opt.batch_size_update
                                    \/ k = n_samples))
        /\ (/\ TgtSizes(batches) = <<100, 50, 200>>
            /\ opt.batch_size_update = 150
            /\ Len(hist) = 3
            /\ NoSkip(3))
           => UpdatesUpTo(3) = {2, 3}

C1_Witness ==
    /\ pc = "done"
    /\ TgtSizes(batches) = <<100, 50, 200>>
    /\ opt.batch_size_update = 150
    /\ NoSkip(3)
    /\ UpdatesUpTo(3) = {2, 3}
    /\ Len(applied) = 2

\* C2 (as claimed): whenever the last batch of the epoch is not skipped it
\* triggers an update, so train_epoch returns with the accumulation counters
\* at zero and no gradient left in the buffers.
C2_FinalBatchFlushes ==
    (pc = "returned" /\ hist[n_samples].res \in NotSkipped) =>
        /\ hist[n_samples].upd
        /\ counter = 0
        /\ num_accumulated_words = 0
        /\ num_accumulated_sents = 0
        /\ grad = {}

\* C3 (as claimed): right after a batch with a NaN loss the gradient buffers
\* and all three accumulation counters are zero and no update was made on it.
C3_NaNResetsEverything ==
    (AfterBatch /\ LastEvent.res = "nan") =>
        /\ ~LastEvent.upd
        /\ grad = {}
        /\ num_accumulated_words = 0
        /\ num_accumulated_sents = 0
        /\ counter = 0

\* The pass of the loop over the batches that this step is, if it is one.
BatchStep == pc = "train" /\ Len(hist') = Len(hist) + 1
NewEvent == hist'[Len(hist')]

\* C4 (as claimed): an out-of-memory error leaves the three counters, the
\* gradient buffers and the optimizer's step counter exactly as they were, and
\* the epoch goes on with the next batch.
C4_OOMLeavesGradientsUntouched ==
    [][(BatchStep /\ NewEvent.res \in OOM) =>
          /\ counter' = counter
          /\ num_accumulated_words' = num_accumulated_words
          /\ num_accumulated_sents' = num_accumulated_sents
          /\ step' = step
          /\ grad' = grad
          /\ pc' = "train"]_vars

\* C4 (amended): an out-of-memory error leaves the three counters and the
\* optimizer's step counter as they were, makes no update, does not zero the
\* gradient buffers, and the epoch goes on with the next batch; the buffers
\* keep all they held and gain at most the part of this batch's gradient that
\* a failed backward had already added.
C4_OOMLeavesAccumulation ==
    [][(BatchStep /\ NewEvent.res \in OOM) =>
          /\ counter' = counter
          /\ num_accumulated_words' = num_accumulated_words
          /\ num_accumulated_sents' = num_accumulated_sents
          /\ step' = step
          /\ applied' = applied
          /\ ~NewEvent.upd
          /\ grad \subseteq grad'
          /\ \A c \in grad' \ grad : c.kind = "partial" /\ c.pos = itpos
          /\ (NewEvent.res = "oom_forward" => grad' = grad)
          /\ pc' = "train"
          /\ itpos' = itpos + 1]_vars

C4_Witness ==
    /\ AfterBatch
    /\ LastEvent.res = "oom_backward"
    /\ counter = 1
    /\ num_accumulated_words > 0
    /\ \E c \in grad : c.kind = "full"
    /\ \E c \in grad : c.kind = "partial" /\ c.pos = LastEvent.pos

\* C5: the streaming state is initialised anew by a pass of the loop exactly
\* when the batch was skipped for out-of-memory and streaming is on; a NaN
\* batch and a successful batch leave it alone.
C5_StreamResetOnlyOnOOM ==
    [][(BatchStep /\ NewEvent.res \in Recoverable) =>
          ((streaming_state' /= streaming_state)
              <=> (NewEvent.res \in OOM /\ opt.streaming))]_vars

C5_Witness ==
    /\ AfterBatch
    /\ opt.streaming
    /\ Len(hist) = 3
    /\ hist[1].res = "nan"
    /\ hist[2].res = "oom_forward"
    /\ hist[3].res = "ok"
    /\ streaming_state = 2

C7_InfHandledLikeNaN ==
    (AfterBatch /\ LastEvent.res = "inf") =>
        /\ ~LastEvent.upd
        /\ grad = {}
        /\ num_accumulated_words = 0
        /\ num_accumulated_sents = 0

\* C7 (amended): a batch with an infinite loss is not recognised as numeric
\* instability (only loss != loss is tested): it is counted like a successful
\* batch, its gradient stays in the buffers, it can trigger an update and the
\* optimizer then steps with buffers that contain it; the epoch continues.
C7_InfCountedAsSuccess ==
    (AfterBatch /\ LastEvent.res = "inf") =>
        LET own == [pos |-> LastEvent.pos, kind |-> "inf"]
            k == Len(hist)
        IN IF LastEvent.upd
           THEN /\ applied /= <<>>
                /\ \E c \in applied[Len(applied)].grad : [pos |-> c.pos, kind |-> c.kind] = own
                /\ step >= 1
                /\ grad = {}
                /\ counter = 0
           ELSE /\ \E c \in grad : [pos |-> c.pos, kind |-> c.kind] = own
                /\ counter >= 1
                /\ num_accumulated_words >= BatchOf(k).tgt_size
                /\ num_accumulated_sents >= BatchOf(k).size

C7_Witness ==
    /\ AfterBatch
    /\ LastEvent.res = "inf"
    /\ LastEvent.upd
    /\ \E c \in applied[Len(applied)].grad : c.kind = "inf"

\* The gradient the optimizer stepped with on the k-th batch of the epoch.
AppliedAt(k) ==
    applied[Len(applied) - Cardinality(UpdatesUpTo(Len(hist))) + Cardinality(UpdatesUpTo(k))]

\* C8 (as claimed): without a token threshold an update is made on a counted
\* batch exactly when the counted batches since the last update reach
\* update_frequency or the batch is the last of the epoch; with a token
\* threshold the number of batches never causes an update.
C8_UpdateOnBatchCount ==
    \A k \in 1..Len(hist) :
        hist[k].res \in NotSkipped =>
            IF opt.batch_size_update <= 0
            THEN hist[k].upd <=> (\/ Cardinality(SinceUpdate(k)) >= opt.update_frequency
                                  \/ k = n_samples)
            ELSE hist[k].upd => (\/ TokensOf(SinceZeroing(k)) >= opt.batch_size_update
                                 \/ k = n_samples)

\* C9: with token-normalised gradients and no skipped batch, the update made
\* after accumulating batches B1..Bn steps with the sum of their gradients
\* divided by their total target-token count, which is the gradient of one
\* update on their concatenation.
C9_AccumulationEqualsConcatenation ==
    opt.normalize_gradient =>
        \A k \in 1..Len(hist) :
            (NoSkip(k) /\ hist[k].upd) =>
                AppliedAt(k).grad =
                    { [pos |-> hist[j].pos, kind |-> "full",
                       coef |-> Rat(1, TokensOf(SinceUpdate(k)))] : j \in SinceUpdate(k) }

C9_Witness ==
    /\ opt.normalize_gradient
    /\ Len(hist) = 3
    /\ NoSkip(3)
    /\ TgtSizes(batches) = <<100, 50, 200>>
    /\ UpdatesUpTo(3) = {2, 3}
    /\ AppliedAt(2).grad = { [pos |-> 0, kind |-> "full", coef |-> <<1, 150>>],
                             [pos |-> 1, kind |-> "full", coef |-> <<1, 150>>] }
    /\ AppliedAt(3).grad = { [pos |-> 2, kind |-> "full", coef |-> <<1, 200>>] }

\* The batches whose gradient, or a part of it, is in g.
PosIn(g) == { c.pos : c \in g }

\* The last batch after which the buffers were zeroed (an update or a NaN
\* reset); 0 if none.
LastZeroing ==
    LET Z == { j \in 1..Len(hist) : hist[j].upd \/ hist[j].res = "nan" }
    IN IF Z = {} THEN 0 ELSE CHOOSE j \in Z : \A m \in Z : m <= j

\* C10 (as claimed): at the start of every pass of the loop at which the
\* accumulation counters are zero, the gradient buffers are zero; and a
\* gradient used by an update is in no later update.
C10_ZeroCountersZeroGradients ==
    /\ (pc = "train" /\ counter = 0 /\ num_accumulated_words = 0 /\ num_accumulated_sents = 0)
           => grad = {}
    /\ \A a, b \in 1..Len(applied) :
           a /= b => PosIn(applied[a].grad) \cap PosIn(applied[b].grad) = {}

\* C10 (amended): the gradient buffers are zero at the start of the epoch,
\* right after every update and right after every NaN reset; at every pass of
\* the loop they hold gradient only of batches handled since the last of
\* these points (a part of the gradient of a batch skipped for out-of-memory
\* included, also while the counters are zero); and a gradient used by an
\* update is in no later update.
C10_GradientsZeroedPerCycle ==
    /\ (pc = "train" /\ LastZeroing = Len(hist)) => grad = {}
    /\ pc = "train" => \A c \in grad : c.pos + 1 > LastZeroing
    /\ \A a, b \in 1..Len(applied) :
           a /= b => PosIn(applied[a].grad) \cap PosIn(applied[b].grad) = {}

C10_Witness ==
    /\ AfterBatch
    /\ Len(applied) = 2
    /\ PosIn(applied[1].grad) = {0}
    /\ PosIn(applied[2].grad) = {1, 2}
    /\ \E c \in applied[2].grad : c.kind = "partial"
    /\ grad = {}

\* ------------------------------------------------------------ reading a run

LastApplied == applied[Len(applied)]

\* The checkpoints written inside an epoch, in order.
PeriodicSaved == SelectSeq(saved, LAMBDA c : c.iteration >= 0)

\* The checkpoints written at the end of an epoch, in order.
EndOfEpochSaved == SelectSeq(saved, LAMBDA c : c.iteration < 0)

\* The events of the log with a given name, in order.
EventsNamed(name) == SelectSeq(runlog, LAMBDA x : x.ev = name)

\* run was called with a checkpoint and restores the training state from it.
Resumed == ckpt.given /\ ~opt.reset_optim

\* ---------------------------------------------------------------- C11

\* C11: every parameter update computes grad_denom (accumulated tokens / denom
\* with token normalisation, else 1 / denom), divides the buffers by it, clips
\* exactly when max_grad_norm > 0 and then on the divided buffers, steps the
\* optimizer once with these buffers, and leaves the buffers and the token,
\* sentence and batch counters at zero.
C11_UpdateStepsInOrder ==
    [][ (BatchStep /\ NewEvent.upd) =>
        LET words == num_accumulated_words + batches[itpos + 1].tgt_size
            gd    == IF opt.normalize_gradient THEN Rat(words, denom) ELSE Rat(1, denom)
            raw   == grad \cup {[pos |-> itpos,
                                 kind |-> (IF NewEvent.res = "ok" THEN "full" ELSE "inf"),
                                 coef |-> Rat(1, denom)]}
            normalised == { [c EXCEPT !.coef = RatDiv(c.coef, gd)] : c \in raw }
            last  == applied'[Len(applied')]
        IN  /\ Len(applied') = Len(applied) + 1
            /\ last.grad_denom = gd
            /\ last.grad = normalised
            /\ last.clip.on <=> (opt.max_grad_norm > 0)
            /\ last.clip.on => last.clip.input = normalised
            /\ grad' = {}
            /\ counter' = 0
            /\ num_accumulated_words' = 0
            /\ num_accumulated_sents' = 0 ]_vars

\* An update with token normalisation and clipping over two accumulated batches
\* has been made, the buffers and counters are back at zero.
C11_Witness ==
    /\ pc = "train"
    /\ opt.max_grad_norm > 0
    /\ opt.normalize_gradient
    /\ applied /= <<>>
    /\ LastApplied.clip.on
    /\ Cardinality(LastApplied.grad) = 2
    /\ LastApplied.clip.input = LastApplied.grad
    /\ LastApplied.grad_denom = Rat(300, denom)
    /\ grad = {}
    /\ counter = 0

\* ---------------------------------------------------------------- C12

\* C12: with save_every = N > 0 a checkpoint is written inside an epoch exactly
\* in the steps that make an update bringing the optimizer's step count to
\* N - 1 modulo N, after a validation, tagged epoch - 1 + (i + 1) / n_samples;
\* two consecutive periodic checkpoints are N updates apart, also when an
\* epoch ends between them.
C12_PeriodicSaveByGlobalStep ==
    /\ [](\A k \in 1..(Len(PeriodicSaved) - 1) :
              PeriodicSaved[k + 1].step - PeriodicSaved[k].step = opt.save_every)
    /\ [][ (pc = "train" /\ pc' = "train") =>
           LET N == opt.save_every
               updated == Len(applied') = Len(applied) + 1
           IN  /\ (saved' /= saved) <=> (N > 0 /\ updated /\ step' % N = N - 1)
               /\ (saved' /= saved) =>
                     /\ step' = step + 1
                     /\ saved' = Append(saved,
                                        [epoch |-> Rat((epoch - 1) * n_samples + i + 1, n_samples),
                                         iteration |-> i,
                                         step |-> step'])
                     /\ runlog' = runlog \o <<Event("eval", epoch, 0), Event("save", epoch, i)>>
         ]_vars

\* Two periodic checkpoints with an end-of-epoch checkpoint between them: the
\* second is written in the next epoch, save_every updates after the first.
C12_Witness ==
    /\ opt.save_every = 2
    /\ Len(saved) >= 3
    /\ saved[Len(saved) - 2].iteration >= 0
    /\ saved[Len(saved) - 1].iteration < 0
    /\ saved[Len(saved)].iteration >= 0
    /\ saved[Len(saved)].step = saved[Len(saved) - 2].step + 2

\* ---------------------------------------------------------------- C13

\* The positions of the log with a given event name.
LogPositions(name) == { k \in 1..Len(runlog) : runlog[k].ev = name }

\* C13: in run one validation precedes the first train_epoch; after every
\* train_epoch that returns come one validation and then one save tagged with
\* the integer epoch, and then the resume state is cleared; a run that
\* completes has trained opt.epochs epochs and made as many end-of-epoch saves.
C13_EpochIsTrainEvalSave ==
    /\ \A k \in LogPositions("train_epoch") :
          /\ runlog[k].epoch = opt.start_epoch =>
                /\ k > 1
                /\ runlog[k - 1] = Event("eval", 0, 0)
                /\ \A j \in 1..(k - 2) : runlog[j].ev /= "eval"
          /\ runlog[k].epoch > opt.start_epoch =>
                /\ runlog[k - 1] = Event("save", runlog[k].epoch - 1, 0 - 1)
                /\ batch_order = None /\ iteration = None /\ resume = FALSE
    /\ \A k \in LogPositions("train_epoch returns") :
          Len(runlog) >= k + 1 =>
              /\ Len(runlog) >= k + 2
              /\ runlog[k + 1] = Event("eval", runlog[k].epoch, 0)
              /\ runlog[k + 2] = Event("save", runlog[k].epoch, 0 - 1)
              /\ Len(runlog) >= k + 3 =>
                    runlog[k + 3] = Event("train_epoch", runlog[k].epoch + 1, 0)
    /\ Len(EndOfEpochSaved) = Cardinality(LogPositions("train_epoch returns") \cap 1..(Len(runlog) - 1))
    /\ \A j \in 1..Len(EndOfEpochSaved) :
          EndOfEpochSaved[j].epoch = <<opt.start_epoch + j - 1, 1>>
    /\ pc = "done" =>
          /\ Len(EndOfEpochSaved) = opt.epochs
          /\ Cardinality(LogPositions("train_epoch")) = opt.epochs
          /\ batch_order = None /\ iteration = None /\ resume = FALSE

\* A run of two epochs resumed from a checkpoint with a batch order has
\* completed: two end-of-epoch saves, the resume state cleared.
C13_Witness ==
    /\ pc = "done"
    /\ opt.epochs = 2
    /\ ckpt.given /\ ckpt.batch_order /= None
    /\ Len(EndOfEpochSaved) = 2
    /\ iteration = None

\* ---------------------------------------------------------------- C14

\* C14: in the first epoch of a run resumed from a checkpoint saved inside an
\* epoch at iteration k with a batch order, no batch at a position 0..k is
\* trained on: the epoch goes on from position k + 1.
C14_ResumeSkipsTrainedBatches ==
    ( /\ Resumed
      /\ ckpt.iteration >= 0
      /\ ckpt.iteration + 1 < n_samples
      /\ ckpt.batch_order /= None
      /\ pc = "train"
      /\ epoch = opt.start_epoch )
    => \A j \in 1..Len(hist) : hist[j].pos > ckpt.iteration

\* ---------------------------------------------------------------- C15

\* The epochs train_epoch has been called with, in order.
EpochsTrained == [k \in 1..Len(EventsNamed("train_epoch")) |-> EventsNamed("train_epoch")[k].epoch]

\* C15: a run resumed with the reset flag unset starts at epoch floor(ep + 1),
\* ep the epoch value of the checkpoint, and trains opt.epochs epochs from
\* there; from a checkpoint written in epoch e before its last batch that is
\* epoch e, from the end-of-epoch checkpoint of epoch e it is epoch e + 1.
C15_ResumeStartEpoch ==
    (Resumed /\ pc /= "run") =>
        /\ opt.start_epoch * ckpt.epoch[2] <= ckpt.epoch[1] + ckpt.epoch[2]
        /\ ckpt.epoch[1] + ckpt.epoch[2] < (opt.start_epoch + 1) * ckpt.epoch[2]
        /\ \A e \in 1..MaxEpochs :
              /\ ( /\ ckpt.iteration >= 0
                   /\ ckpt.iteration + 1 < n_samples
                   /\ ckpt.epoch = Rat((e - 1) * n_samples + ckpt.iteration + 1, n_samples) )
                 => opt.start_epoch = e
              /\ (ckpt.iteration < 0 /\ ckpt.epoch = <<e, 1>>) => opt.start_epoch = e + 1
        /\ \A k \in 1..Len(EpochsTrained) : EpochsTrained[k] = opt.start_epoch + k - 1
        /\ Len(EpochsTrained) <= opt.epochs
        /\ pc = "done" => Len(EpochsTrained) = opt.epochs

\* A run of two epochs resumed from a checkpoint written in epoch 2 before its
\* last batch has completed: it trained epochs 2 and 3.
C15_Witness ==
    /\ Resumed
    /\ pc = "done"
    /\ ckpt.iteration >= 0
    /\ ckpt.iteration + 1 < n_samples
    /\ ckpt.epoch = Rat(n_samples + ckpt.iteration + 1, n_samples)
    /\ EpochsTrained = <<2, 3>>

\* ---------------------------------------------------------------- C16

AmpLoaded == EventsNamed("amp.load_state_dict") /= <<>>

\* The checkpoint's configuration has the precision mode of the current one.
SameMode == ckpt.has_prec /\ ckpt.fp16 = opt.fp16 /\ ckpt.fp16_mixed = opt.fp16_mixed

\* run is past its checkpoint block.
Loaded == pc /= "run"

\* run has not ended in an error before the warm-up.
NoLoadError ==
    pc = "failed" => (EventsNamed("warm_up") /= <<>> \/ EventsNamed("train_epoch") /= <<>>)

\* C16 as stated: on a resume the saved precision state is loaded exactly when
\* the saved and the current precision mode are the same and the checkpoint
\* holds a precision state; otherwise run goes on without it and without error.
C16_AmpLoadedIffSameMode ==
    (ckpt.given /\ Loaded) =>
        /\ AmpLoaded <=> (SameMode /\ ckpt.has_amp)
        /\ NoLoadError

\* C16: on a resume the saved precision state is loaded exactly when the reset
\* flag is unset, the saved and the current precision mode are the same and
\* the checkpoint holds a precision state; otherwise run goes on without it
\* and without error.
C16_AmpLoadedIffSameModeAndNoReset ==
    (ckpt.given /\ Loaded) =>
        /\ AmpLoaded <=> (~opt.reset_optim /\ SameMode /\ ckpt.has_amp)
        /\ NoLoadError

\* A run resumed in fp16 (not mixed) from a checkpoint of the same mode with a
\* precision state has loaded it and completed.
C16_Witness ==
    /\ ckpt.given
    /\ opt.fp16 /\ ~opt.fp16_mixed
    /\ SameMode
    /\ AmpLoaded
    /\ pc = "done"

\* ---------------------------------------------------------------- C17

\* C17 as stated: on a resume with the reset flag set the parameters come from
\* the checkpoint, the optimizer state is not restored, and the start epoch,
\* the iteration and the batch order are those of a resume without the flag.
C17_ResetSkipsOnlyOptimizer ==
    (ckpt.given /\ opt.reset_optim /\ Loaded /\ saved = <<>>) =>
        /\ params = "checkpoint"
        /\ EventsNamed("optim.load_state_dict") = <<>>
        /\ opt.start_epoch = (ckpt.epoch[1] + ckpt.epoch[2]) \div ckpt.epoch[2]
        /\ iteration = Some(ckpt.iteration + 1)
        /\ batch_order = ckpt.batch_order

\* C17: on a resume with the reset flag set run restores the parameters from
\* the checkpoint and nothing else: the optimizer state and the precision
\* state are not loaded, opt.start_epoch stays as configured, iteration is 0,
\* there is no batch order and resume is False.
C17_ResetRestoresParametersOnly ==
    [][ (pc = "run" /\ ckpt.given /\ opt.reset_optim) =>
            /\ params' = "checkpoint"
            /\ runlog' = <<Event("model.load_state_dict", 0, 0)>>
            /\ step' = step
            /\ opt' = opt
            /\ iteration' = Some(0)
            /\ batch_order' = None
            /\ resume' = FALSE ]_vars

\* A run with the reset flag set, given the end-of-epoch checkpoint of epoch
\* 1, has trained epoch 1 (not 2) from the checkpoint's parameters.
C17_Witness ==
    /\ ckpt.given
    /\ opt.reset_optim
    /\ ckpt.iteration < 0
    /\ pc = "done"
    /\ params = "checkpoint"
    /\ EpochsTrained = <<1>>
    /\ step = Len(applied)

\* ---------------------------------------------------------------- C18

\* C18: run calls init_model_parameters once when it is given no checkpoint
\* and never when it is given one: parameters loaded from a checkpoint stay
\* the loaded ones.
C18_InitializedIffNoCheckpoint ==
    /\ ~Loaded => EventsNamed("init_model_parameters") = <<>>
    /\ Loaded =>
          /\ Len(EventsNamed("init_model_parameters")) = (IF ckpt.given THEN 0 ELSE 1)
          /\ params = (IF ckpt.given THEN "checkpoint" ELSE "initialized")

\* A run given a checkpoint, with the reset flag set, has completed on the
\* checkpoint's parameters without an initialisation.
C18_Witness ==
    /\ ckpt.given
    /\ opt.reset_optim
    /\ pc = "done"
    /\ params = "checkpoint"
    /\ EventsNamed("model.load_state_dict") /= <<>>
    /\ EventsNamed("init_model_parameters") = <<>>

\* ---------------------------------------------------------------- C19

\* warm_up has printed its out-of-memory warning.
WarmUpWarned == EventsNamed("print: warning, out-of-memory in warming up") /= <<>>

\* warm_up was entered and printed neither the warning nor the success line:
\* it raised.
WarmUpRaised ==
    /\ EventsNamed("warm_up") /= <<>>
    /\ ~WarmUpWarned
    /\ EventsNamed("print: warming up successfully") = <<>>

\* run has gone on from the warm-up: it is at the initial validation, or has
\* made it and is in (or through) the epochs.
WentOnAfterWarmUp ==
    \/ pc = "validate"
    \/ /\ pc \in {"epoch", "train", "returned", "done", "failed"}
       /\ EventsNamed("eval") /= <<>>
       /\ pc = "failed" => EventsNamed("train_epoch") /= <<>>

\* C19 as stated: after an out-of-memory error in warm_up the warning is
\* printed and run goes on to the initial validation and the epochs; any other
\* runtime error in warm_up ends run before the validation.
C19_WarmUpOOMNotFatal ==
    /\ WarmUpWarned => WentOnAfterWarmUp
    /\ WarmUpRaised => (pc = "failed" /\ EventsNamed("eval") = <<>>)

\* C19: with memory profiling off, after an out-of-memory error in warm_up the
\* warning is printed and run goes on to the initial validation and the
\* epochs; with memory profiling on warm_up ends the process after the
\* warning; any other runtime error in warm_up ends run before the validation.
C19_WarmUpOOMNotFatalUnlessProfiling ==
    /\ (WarmUpWarned /\ ~opt.memory_profiling) => WentOnAfterWarmUp
    /\ (WarmUpWarned /\ opt.memory_profiling) => pc = "exited"
    /\ WarmUpRaised => (pc = "failed" /\ EventsNamed("eval") = <<>>)
    /\ (opt.cuda /\ pc \in {"validate", "exited"}) => ~WarmUpRaised

\* A run on a GPU whose warm-up ran out of memory inside backward has printed
\* the warning and completed its epoch.
C19_Witness ==
    /\ opt.cuda
    /\ ~opt.memory_profiling
    /\ WarmUpWarned
    /\ pc = "done"
    /\ applied /= <<>>

\* ---------------------------------------------------------------- C20

\* C20: warm_up makes no optimizer step, and no gradient the optimizer steps
\* with holds a contribution of the warm-up batch; train_epoch starts on
\* buffers without it.
C20_WarmUpGradientsDiscarded ==
    /\ EventsNamed("train_epoch") = <<>> =>
          /\ applied = <<>>
          /\ step = (IF Loaded /\ Resumed THEN ckpt.step ELSE 0)
    /\ \A k \in 1..Len(applied) : \A c \in applied[k].grad : c.pos >= 0
    /\ pc = "train" => \A c \in grad : c.pos >= 0

\* A run on a GPU whose warm-up backward succeeded has made an update.
C20_Witness ==
    /\ opt.cuda
    /\ EventsNamed("print: warming up successfully") /= <<>>
    /\ pc = "train"
    /\ Len(applied) = 1
    /\ applied[1].grad = {[pos |-> 0, kind |-> "full", coef |-> Rat(1, 100)]}

\* ------------------------------------------- runs that validate and save

\* opt.save_every of the runs below: no periodic checkpoint, one after every
\* update, one after every second update.
SaveEverysOften == {0, 1, 2}

\* Fresh runs of 1..MaxEpochs epochs on the CPU with every retention count,
\* with and without streaming, on a validation set of one or two batches.
InitSave ==
    /\ opt \in [batch_size_update : {0},
                update_frequency : UpdateFrequencies,
                normalize_gradient : {TRUE},
                streaming : BOOLEAN,
                save_every : SaveEverysOften,
                start_epoch : {1},
                epochs : 1..MaxEpochs,
                max_grad_norm : {0},
                reset_optim : {FALSE},
                fp16 : {FALSE},
                fp16_mixed : {FALSE},
                cuda : {FALSE},
                memory_profiling : {FALSE},
                mirror_loss : {FALSE},
                reconstruct : {FALSE},
                keep_save_files : KeepSaveFiles]
    /\ batches \in SeqsUpTo(UniformBatches, MaxBatches)
    /\ ckpt = NoCheckpoint
    /\ valid_data \in SeqsUpTo(UniformBatches, 2)
    /\ additional = NoAdditionalData
    /\ Constructed

SpecSave == InitSave /\ [][NextRun]_vars

\* ---------------------------------------------------------------- C21

\* The positions in a sequence of calls of the calls with a given name.
CallPositions(calls, name) == { k \in 1..Len(calls) : calls[k].call = name }

\* The validation batches a sequence of calls runs forward on, in order.
Visited(calls) ==
    LET fw == SelectSeq(calls, LAMBDA c : c.call = "forward")
    IN [k \in 1..Len(fw) |-> fw[k].batch]

\* train_epoch's and the optimizer's state that eval has to leave alone.
trainstate == <<params, grad, step, applied, i, counter, num_accumulated_words,
                num_accumulated_sents, total_words>>

\* C21: every eval that returns, called from run or inside train_epoch,
\* leaves model and loss function in training mode, runs forward on every
\* validation batch exactly once and in evaluation mode, resets the recurrent
\* state before the first batch, and leaves parameters, gradient buffers,
\* step counter and the accumulation counters as they were: unchanged when
\* run calls it, as the update before it left them when train_epoch does.
C21_EvalFrame ==
    /\ [](/\ mode = [model |-> "train", loss_function |-> "train"]
          /\ \A n \in 1..Len(evals) :
                LET calls == evals[n]
                    first == CHOOSE k \in 1..(Len(calls) + 1) :
                                 /\ k \in CallPositions(calls, "forward") \cup {Len(calls) + 1}
                                 /\ \A j \in CallPositions(calls, "forward") : k <= j
                IN /\ Visited(calls) = [k \in 1..Len(valid_data) |-> k - 1]
                   /\ \E k \in CallPositions(calls, "model.reset_states") : k < first
                   /\ ModeAfter(mode, SubSeq(calls, 1, first - 1))
                          = [model |-> "eval", loss_function |-> "eval"])
    /\ [][evals' # evals =>
             IF pc = "train"
             THEN /\ step' = OptimStepCount(step)
                  /\ grad' = {}
                  /\ counter' = 0
                  /\ num_accumulated_words' = 0
                  /\ num_accumulated_sents' = 0
                  /\ i' = i + 1
                  /\ params' = params
             ELSE UNCHANGED trainstate]_vars

\* A finished run that validated a set of two batches inside train_epoch and
\* at the end of the epoch.
C21_Witness ==
    /\ pc = "done"
    /\ Len(valid_data) = 2
    /\ \E k \in 1..Len(runlog) : runlog[k].ev = "save" /\ runlog[k].i >= 0
    /\ Len(evals) >= 3

\* ---------------------------------------------------------------- C22

\* The name of the file the n-th save of the run has written.
NameOfSave(n) == FileName(ValidPpl(saved[n].step), saved[n].epoch)

\* The saves whose file no later save has written again, in order.
LastWrites ==
    LET S == 1..Len(saved)
        last == { n \in S : \A m \in S : m > n => NameOfSave(m) # NameOfSave(n) }
    IN SelectSeq([n \in S |-> n], LAMBDA n : n \in last)

\* The saves whose files exist, oldest first.
FilesKept == [k \in 1..Len(files) |-> files[k].nth]

\* C22 as stated: after every save the files that remain are those of the K
\* most recent saves, so K of them once K + 1 saves were made.
C22_KeepsKMostRecentSaves ==
    LET S == Len(saved)
        K == opt.keep_save_files
    IN /\ Len(files) <= K
       /\ { FilesKept[k] : k \in 1..Len(files) } = { n \in 1..S : n > S - K }
       /\ S >= K + 1 => Len(files) = K

\* C22: after every save at most K files remain; a save under the name of an
\* existing file replaces it, and the files that remain are the K most
\* recently written among the files written under different names, so that
\* K remain after K + 1 saves with K + 1 different names.
C22_KeepsKMostRecentFiles ==
    LET K == opt.keep_save_files
        W == LastWrites
    IN /\ Len(files) <= K
       /\ FilesKept = SubSeq(W, IF Len(W) > K THEN Len(W) - K + 1 ELSE 1, Len(W))
       /\ Len(W) >= K + 1 => Len(files) = K

\* A finished run whose end-of-epoch save replaced the file of the periodic
\* save on the last batch, and which has removed a file.
C22_Witness ==
    /\ pc = "done"
    /\ Len(files) = opt.keep_save_files
    /\ Len(LastWrites) > Len(files)
    /\ \E n \in 1..Len(saved) : \E m \in 1..Len(saved) :
          /\ n < m
          /\ NameOfSave(n) = NameOfSave(m)
          /\ saved[n].iteration >= 0
          /\ saved[m].iteration < 0

\* ---------------------------------------------------------------- C23

\* The ten keys, the precision state under the key named k.
KeysWith(k) ==
    {"model", "dicts", "opt", "epoch", "iteration", "batch_order", "optim",
     "additional_batch_order", "additional_data_iteration", k}

\* C23 as stated: every checkpoint file holds exactly the ten keys, the
\* precision state under 'precision_state', and run reads it under the key
\* save wrote it.
C23_KeysWithPrecisionState ==
    /\ \A k \in 1..Len(files) : files[k].keys = KeysWith("precision_state")
    /\ PrecisionKeyRead = PrecisionKeyWritten

\* C23: every checkpoint file holds exactly the ten keys, the precision state
\* under 'amp', and run reads it under the key save wrote it.
C23_KeysWithAmp ==
    /\ \A k \in 1..Len(files) :
          /\ files[k].keys = KeysWith("amp")
          /\ PrecisionKeyWritten \in files[k].keys
    /\ PrecisionKeyRead = PrecisionKeyWritten

\* A finished run that loaded the precision state of its checkpoint and has
\* written a checkpoint file.
C23_Witness ==
    /\ pc = "done"
    /\ Resumed
    /\ AmpLoaded
    /\ files # <<>>

\* -------------------------------------------------- runs with additional data

\* The additional datasets registered with add_additional_data (49-55): none,
\* or one dataset of one or two batches with its ratio "r0;r1".
AdditionalData ==
    {NoAdditionalData}
    \cup { [data |-> <<d>>, ratio |-> <<r0, r1>>, iteration |-> <<>>, order |-> <<>>] :
              d \in {1, 2}, r0 \in {1, 2}, r1 \in {0, 1, 2} }

\* A pass of the loop whose additional-data block (457-467) raises: the block
\* is outside the try of line 484, the error leaves train_epoch and run
\* before the batch of the primary stream is taken (470).
TrainStepAdditionalData ==
    /\ pc = "train"
    /\ ~EndOfEpoch
    /\ AdditionalDataRaises(additional, i)
    /\ additional' = AdditionalDataBlock(additional, i)
    /\ runlog' = Append(runlog, Event(IF additional.ratio[1] = 0
                                      THEN "ZeroDivisionError" ELSE "NameError", epoch, i))
    /\ pc' = "failed"
    /\ UNCHANGED <<opt, batches, ckpt, runstate, epoch, itpos, i, counter,
                   num_accumulated_words, num_accumulated_sents, total_words,
                   grad, step, applied, streaming_state, saved, hist>>
    /\ UNCHANGED <<setup, mode, evals, files, backward_loss>>

NextAdditional ==
    \/ RunStart
    \/ \E res \in WarmUpOutcomes : RunWarmUp(res)
    \/ RunInitialEval
    \/ TrainEpochBegin
    \/ \E res \in RunOutcomes : TrainStep(res)
    \/ TrainStepRaise
    \/ TrainStepAdditionalData
    \/ TrainEpochReturn
    \/ RunEpochEnd

\* Fresh runs of one epoch on the CPU, with and without additional data.
InitAdditional ==
    /\ opt \in [batch_size_update : {0},
                update_frequency : UpdateFrequencies,
                normalize_gradient : {TRUE},
                streaming : {FALSE},
                save_every : {0},
                start_epoch : {1},
                epochs : {1},
                max_grad_norm : {0},
                reset_optim : {FALSE},
                fp16 : {FALSE},
                fp16_mixed : {FALSE},
                cuda : {FALSE},
                memory_profiling : {FALSE},
                mirror_loss : {FALSE},
                reconstruct : {FALSE},
                keep_save_files : {3}]
    /\ batches \in SeqsUpTo(UniformBatches, MaxBatches)
    /\ ckpt = NoCheckpoint
    /\ valid_data = OneValidBatch
    /\ additional \in AdditionalData
    /\ Constructed

SpecAdditional == InitAdditional /\ [][NextAdditional]_vars

\* ---------------------------------------------------------------- C25

\* Some dataset has a positive ratio, so that batches of it are due.
AdditionalBatchesDue ==
    /\ Len(additional.data) > 0
    /\ \E j \in 1..Len(additional.data) : additional.ratio[j + 1] > 0

\* C25: with additional datasets registered, train_epoch takes their batches
\* at the configured ratio, the primary stream goes on and the epoch
\* completes without an error: no pass of the loop ends in a NameError and a
\* run that is not ended by an error of the model trains every batch.
C25_AdditionalDataInterleaved ==
    AdditionalBatchesDue =>
        /\ EventsNamed("NameError") = <<>>
        /\ pc = "failed" => itpos > 0

\* ------------------------------------------------ runs with auxiliary losses

\* Fresh runs of one epoch, with and without a GPU, the mirror losses and the
\* reconstruction loss.
InitLoss ==
    /\ opt \in [batch_size_update : {0},
                update_frequency : UpdateFrequencies,
                normalize_gradient : {TRUE},
                streaming : {FALSE},
                save_every : {0},
                start_epoch : {1},
                epochs : {1},
                max_grad_norm : {0},
                reset_optim : {FALSE},
                fp16 : {FALSE},
                fp16_mixed : {FALSE},
                cuda : BOOLEAN,
                memory_profiling : {FALSE},
                mirror_loss : BOOLEAN,
                reconstruct : BOOLEAN,
                keep_save_files : {3}]
    /\ batches \in SeqsUpTo(UniformBatches, MaxBatches)
    /\ ckpt = NoCheckpoint
    /\ valid_data = OneValidBatch
    /\ additional = NoAdditionalData
    /\ Constructed

SpecLoss == InitLoss /\ [][NextRun]_vars

\* ---------------------------------------------------------------- C30

\* C30: the loss train_epoch calls backward on for a batch is the combined
\* loss, the primary loss and every enabled auxiliary loss (rev_loss and
\* mirror_loss with opt.mirror_loss, rec_loss with opt.reconstruct), each
\* divided by the same fixed denominator, with and without a GPU.
C30_BackwardOnCombinedLoss ==
    (pc = "train" /\ hist # <<>> /\ ReachesBackward(LastEvent.res)) =>
        backward_loss =
            {[term |-> "loss", div |-> denom]}
            \cup (IF opt.mirror_loss
                  THEN {[term |-> "rev_loss", div |-> denom],
                        [term |-> "mirror_loss", div |-> denom]}
                  ELSE {})
            \cup (IF opt.reconstruct THEN {[term |-> "rec_loss", div |-> denom]} ELSE {})

\* The same on a GPU only.
C30_BackwardOnCombinedLossOnGPU == opt.cuda => C30_BackwardOnCombinedLoss

\* ---------------------------------------------- functions studied on their own

\* A trainer that is constructed and not run while a function is studied.
NotRun ==
    /\ opt = [batch_size_update |-> 0, update_frequency |-> 1,
              normalize_gradient |-> TRUE, streaming |-> FALSE, save_every |-> 0,
              start_epoch |-> 1, epochs |-> 1, max_grad_norm |-> 0,
              reset_optim |-> FALSE, fp16 |-> FALSE, fp16_mixed |-> FALSE,
              cuda |-> FALSE, memory_profiling |-> FALSE, mirror_loss |-> FALSE,
              reconstruct |-> FALSE, keep_save_files |-> 3]
    /\ batches = <<>>
    /\ ckpt = NoCheckpoint
    /\ valid_data = OneValidBatch
    /\ additional = NoAdditionalData
    /\ ConstructedTrainer

\* What the trainer's variables are in a step of a function under study.
trainer == <<opt, batches, ckpt, pc, params, batch_order, iteration, resume,
             runlog, epoch, itpos, i, counter, num_accumulated_words,
             num_accumulated_sents, total_words, grad, step, applied,
             streaming_state, saved, hist, valid_data, additional, mode, evals,
             files, backward_loss>>

\* ------------------------------------------------------------ build_model

\* opt.model: the architectures build_tm_model knows, and one it does not.
Models ==
    {"transformer", "stochastic_transformer", "relative_transformer",
     "distance_transformer", "unified_transformer",
     "relative_unified_transformer", "memory_transformer", "lstm"}

\* opt.encoder_type: the three of the code, and one it does not know.
EncoderTypes == {"text", "audio", "mix", "image"}

\* opt.time
Times == {"positional_encoding", "gru"}

\* The configurations build_model is called with.
BuildOptions ==
    [model : Models, encoder_type : EncoderTypes, fusion : BOOLEAN,
     time : Times, reconstruct : BOOLEAN, ctc_loss : BOOLEAN]

\* A model returned: its encoder, where it has one of its own, its decoder
\* and its generators.
Built(enc, dec, gens) ==
    [kind |-> "model", encoder |-> enc, decoder |-> dec, generators |-> gens,
     names |-> {}]

\* An exception or exit; names: the configuration fields its text names.
Fails(kind, names) ==
    [kind |-> kind, encoder |-> "", decoder |-> "", generators |-> 0,
     names |-> names]

\* The encoder build_tm_model makes for the relative and the distance
\* transformer (106-111, 133-138): two ifs without an else, so that
\* `encoder` is unbound for any other encoder type.
RelativeEncoder(o, enc) ==
    IF o.encoder_type \in {"text", "audio"} THEN Some(enc) ELSE None

\* build_tm_model (35-183)
BuildTmModel(o) ==
    LET gens == IF o.ctc_loss THEN 2 ELSE 1
    IN
    IF o.time # "positional_encoding" THEN Fails("NotImplementedError", {})
    ELSE IF o.reconstruct /\ o.model # "relative_transformer" THEN Fails("AssertionError", {})
    ELSE IF o.reconstruct /\ o.encoder_type # "text" THEN Fails("AssertionError", {})
    ELSE IF o.model \in {"transformer", "stochastic_transformer"}
         THEN CASE o.encoder_type = "text"  -> Built("TransformerEncoder", "TransformerDecoder", gens)
                [] o.encoder_type = "audio" -> Built("TransformerEncoder", "TransformerDecoder", gens)
                [] o.encoder_type = "mix"   -> Built("MixedEncoder", "TransformerDecoder", gens)
                [] OTHER                    -> Fails("exit", {"encoder_type"})
    ELSE IF o.model = "relative_transformer"
         THEN IF RelativeEncoder(o, "RelativeTransformerEncoder") = None
              THEN Fails("UnboundLocalError", {})
              ELSE Built("RelativeTransformerEncoder", "RelativeTransformerDecoder", gens)
    ELSE IF o.model = "distance_transformer"
         THEN IF RelativeEncoder(o, "DistanceTransformerEncoder") = None
              THEN Fails("UnboundLocalError", {})
              ELSE Built("DistanceTransformerEncoder", "RelativeTransformerDecoder", gens)
    ELSE IF o.model \in {"unified_transformer", "relative_unified_transformer",
                         "memory_transformer"}
         THEN IF o.encoder_type = "audio" THEN Fails("NotImplementedError", {})
              ELSE Built("unified", "unified", gens)
    ELSE Fails("NotImplementedError", {})

\* build_model (16-32)
BuildModel(o) ==
    IF ~o.fusion THEN BuildTmModel(o) ELSE Fails("NotImplementedError", {})

\* build_model(opt, dicts) is called.
BuildModelCall ==
    /\ call # None
    /\ result = None
    /\ result' = Some(BuildModel(call[1]))
    /\ UNCHANGED <<trainer, call>>

InitBuild ==
    /\ NotRun
    /\ call \in { Some(o) : o \in BuildOptions }
    /\ result = None

NextBuild == BuildModelCall

SpecBuild == InitBuild /\ [][NextBuild]_vars

\* ---------------------------------------------------------------- C26

\* C26: for every architecture, encoder type, fusion flag and time option,
\* build_model returns a model with encoder, decoder and generators, or fails
\* with an error raised for the unsupported combination (NotImplementedError,
\* a failed assertion on the configuration, or the exit after "Unknown
\* encoder type"); nothing else.
C26_ModelOrConfigurationError ==
    result # None =>
        \/ /\ result[1].kind = "model"
           /\ result[1].encoder # ""
           /\ result[1].decoder # ""
           /\ result[1].generators >= 1
        \/ result[1].kind \in {"NotImplementedError", "AssertionError", "exit"}

\* The same of an encoder type that every architecture has a branch for, the
\* text of the error left aside.
C26_TextIsBuiltOrRejected ==
    (result # None /\ call[1].encoder_type = "text") =>
        result[1].kind \in {"model", "NotImplementedError", "AssertionError"}

\* ------------------------------------------------------------------ VDLoss

\* onmt.Constants.PAD, the padding index.
PAD == 0

\* output_size of the loss functions below: the classes are 0..OutputSize - 1.
OutputSize == 3

\* x * y and x + y for rationals x, y >= 0, and 1 - x for 0 <= x <= 1.
RatTimes(x, y) == Rat(x[1] * y[1], x[2] * y[2])
RatPlus(x, y) == Rat(x[1] * y[2] + y[1] * x[2], x[2] * y[2])
OneMinus(x) == Rat(x[2] - x[1], x[2])

\* label_smoothing: none, 1/10, 1/2.
LabelSmoothings == {Rat(0, 1), Rat(1, 10), Rat(1, 2)}

\* The negated log-probabilities of a position, class by class.
ScoreRows == [0..(OutputSize - 1) -> {1, 2}]

\* scores (positions x classes, negated) and targets of the same length.
LossInputs ==
    UNION { [scores : [1..n -> ScoreRows], targets : [1..n -> 0..(OutputSize - 1)]] :
                n \in 1..2 }

RECURSIVE SumOver(_, _)
\* The sum of f[k] over the k of a finite set S.
SumOver(f, S) ==
    IF S = {} THEN 0
    ELSE LET k == CHOOSE x \in S : TRUE IN f[k] + SumOver(f, S \ {k})

\* self.smoothing_value = label_smoothing / (output_size - 1) (60)
SmoothingValue(eps, V) == RatDiv(eps, Rat(V - 1, 1))

\* VDLoss.__init__(output_size, label_smoothing) (49-67): the attributes of
\* the object; smoothing_value is set only if label_smoothing > 0.
VDLossAttributes(V, eps) ==
    [output_size |-> V, padding_idx |-> PAD,
     smoothing_value |-> (IF eps[1] > 0 THEN Some(SmoothingValue(eps, V)) ELSE None),
     confidence |-> OneMinus(eps), label_smoothing |-> eps]

\* non_pad_mask = gtruth.ne(self.padding_idx) (91)
NonPadMask(self, targets) == { k \in 1..Len(targets) : targets[k] # self.padding_idx }

\* _compute_loss(scores, targets) (70-108): the sums over the positions that
\* are not padding; self.smoothing_value (100) raises AttributeError when
\* __init__ has not set it.
ComputeLoss(self, scores, targets) ==
    LET non_pad_mask == NonPadMask(self, targets)
        nll_loss     == SumOver([k \in 1..Len(targets) |-> scores[k][targets[k]]],
                                non_pad_mask)
        smooth_loss  == SumOver([k \in 1..Len(targets) |->
                                     SumOver(scores[k], 0..(self.output_size - 1))],
                                non_pad_mask)
        n_targets    == Cardinality(non_pad_mask)
    IN IF self.smoothing_value = None
       THEN [raised |-> "AttributeError", smoothed_nll |-> Rat(0, 1), nll |-> 0,
             n_targets |-> 0]
       ELSE [raised |-> "",
             smoothed_nll |-> RatPlus(RatTimes(OneMinus(self.label_smoothing),
                                               Rat(nll_loss, 1)),
                                      RatTimes(self.smoothing_value[1],
                                               Rat(smooth_loss, 1))),
             nll |-> nll_loss,
             n_targets |-> n_targets]

\* VDLoss(OutputSize, label_smoothing)._compute_loss(scores, targets) is called.
ComputeLossCall ==
    /\ call # None
    /\ result = None
    /\ result' = Some(ComputeLoss(VDLossAttributes(OutputSize, call[1].label_smoothing),
                                  call[1].scores, call[1].targets))
    /\ UNCHANGED <<trainer, call>>

InitVDLoss ==
    /\ NotRun
    /\ call \in { Some([label_smoothing |-> eps, scores |-> x.scores,
                        targets |-> x.targets]) :
                      eps \in LabelSmoothings, x \in LossInputs }
    /\ result = None

NextVDLoss == ComputeLossCall

SpecVDLoss == InitVDLoss /\ [][NextVDLoss]_vars

\* The raw NLL of a call: minus the log-probability of the target, summed
\* over the positions whose target is not padding.
RawNLL(c) ==
    SumOver([k \in 1..Len(c.targets) |-> c.scores[k][c.targets[k]]],
            { k \in 1..Len(c.targets) : c.targets[k] # PAD })

\* Minus the log-probabilities of all classes, summed over the positions
\* whose target is not padding.
AllClasses(c) ==
    SumOver([k \in 1..Len(c.targets) |-> SumOver(c.scores[k], 0..(OutputSize - 1))],
            { k \in 1..Len(c.targets) : c.targets[k] # PAD })

\* ---------------------------------------------------------------- C27

\* C27: a VDLoss built with label smoothing 0 computes for every input,
\* without an error, a smoothed loss equal to the raw NLL summed over the
\* positions that are not padding.
C27_NoSmoothingIsNLL ==
    (result # None /\ call[1].label_smoothing = Rat(0, 1)) =>
        /\ result[1].raised = ""
        /\ result[1].smoothed_nll = Rat(RawNLL(call[1]), 1)
        /\ result[1].nll = RawNLL(call[1])

\* ---------------------------------------------------------------- C28

\* C28: with label smoothing eps in (0, 1) and V classes the smoothed loss is
\* (1 - eps) * NLL + eps * (minus the mean log-probability over the V
\* classes), summed over the positions that are not padding: the summed
\* log-probabilities of a position have the weight eps / V.
C28_SmoothingWeightIsEpsOverV ==
    (result # None /\ call[1].label_smoothing # Rat(0, 1)) =>
        /\ result[1].raised = ""
        /\ result[1].smoothed_nll =
               RatPlus(RatTimes(OneMinus(call[1].label_smoothing), Rat(RawNLL(call[1]), 1)),
                       RatTimes(RatDiv(call[1].label_smoothing, Rat(OutputSize, 1)),
                                Rat(AllClasses(call[1]), 1)))

\* What the code computes instead: the weight is eps / (V - 1).
C28_SmoothingWeightIsEpsOverVMinusOne ==
    (result # None /\ call[1].label_smoothing # Rat(0, 1)) =>
        /\ result[1].raised = ""
        /\ result[1].smoothed_nll =
               RatPlus(RatTimes(OneMinus(call[1].label_smoothing), Rat(RawNLL(call[1]), 1)),
                       RatTimes(RatDiv(call[1].label_smoothing, Rat(OutputSize - 1, 1)),
                                Rat(AllClasses(call[1]), 1)))

\* ---------------------------------------------------------------- C29

\* The inputs that differ from c at most in the scores of padding positions.
SameButPadding(c) ==
    { [c EXCEPT !.scores = s] :
          s \in { x \in [1..Len(c.targets) -> ScoreRows] :
                      \A k \in 1..Len(c.targets) :
                          c.targets[k] # PAD => x[k] = c.scores[k] } }

\* The outputs of _compute_loss on c.
Outputs(c) ==
    ComputeLoss(VDLossAttributes(OutputSize, c.label_smoothing), c.scores, c.targets)

\* C29 for the calls that return.
PaddingContributesNothing ==
    /\ result[1].raised = ""
    /\ \A c \in SameButPadding(call[1]) : Outputs(c) = result[1]
    /\ result[1].n_targets =
           Cardinality({ k \in 1..Len(call[1].targets) : call[1].targets[k] # PAD })
    /\ (\A k \in 1..Len(call[1].targets) : call[1].targets[k] = PAD) =>
           /\ result[1].smoothed_nll = Rat(0, 1)
           /\ result[1].nll = 0
           /\ result[1].n_targets = 0

\* C29: in every call of _compute_loss padding positions contribute nothing:
\* other scores at padding positions give the same outputs, the count is the
\* number of targets that are not padding, and targets that are all padding
\* give loss 0, NLL 0 and count 0.
C29_PaddingContributesNothing ==
    result # None => PaddingContributesNothing

\* The same with label smoothing on.
C29_PaddingContributesNothingIfSmoothing ==
    (result # None /\ call[1].label_smoothing # Rat(0, 1)) => PaddingContributesNothing

\* ------------------------------------------------------ load_decoder_weight

\* The longest vocabulary.
MaxVocab == 3

\* The tokens of the vocabularies.
Tokens == {"a", "b", "c", "d"}

\* labelToIdx of a vocabulary: its tokens, the token at position k having the
\* index k - 1.
Vocabularies ==
    { v \in SeqsUpTo(Tokens, MaxVocab) :
          \A j \in 1..Len(v) : \A k \in 1..Len(v) : v[j] = v[k] => j = k }

\* The tokens of a vocabulary.
TokensOfVocab(v) == { v[k] : k \in 1..Len(v) }

\* labelToIdx[token]
LabelToIdx(v, token) == (CHOOSE k \in 1..Len(v) : v[k] = token) - 1

\* A row of an embedding or an entry of the output bias: the model it was
\* initialised or trained in, and its index there.
Row(model, idx) == [of |-> model, idx |-> idx]

\* Mutant: the pretrained row is looked up by the index of the current
\* vocabulary.
PretrainedId_ByIndex(pre, token, untrained_id) == untrained_id

\* pretrained_id = chkpoint_dict['tgt'].labelToIdx[token] (115)
PretrainedId(pre, token, untrained_id) == LabelToIdx(pre, token)

RECURSIVE CopyRows(_, _, _, _)
\* The loop over the tokens of the current vocabulary from position k on
\* (110-121), m holding word_emb, bias and n_copies.
CopyRows(cur, pre, k, m) ==
    IF k > Len(cur) THEN m
    ELSE LET token        == cur[k]
             untrained_id == LabelToIdx(cur, token)
         IN IF token \in TokensOfVocab(pre)
            THEN LET pretrained_id == PretrainedId(pre, token, untrained_id)
                 IN CopyRows(cur, pre, k + 1,
                        [word_emb |-> [m.word_emb EXCEPT ![untrained_id] =
                                           Row("pretrained", pretrained_id)],
                         bias |-> [m.bias EXCEPT ![untrained_id] =
                                       Row("pretrained", pretrained_id)],
                         n_copies |-> m.n_copies + 1])
            ELSE CopyRows(cur, pre, k + 1, m)

\* load_decoder_weight (83-135) on the target vocabularies of the current
\* and the pretrained model: the embedding rows and bias entries of the
\* current model afterwards, and the count it prints.
LoadDecoderWeight(cur, pre) ==
    CopyRows(cur, pre, 1,
             [word_emb |-> [idx \in 0..(Len(cur) - 1) |-> Row("untrained", idx)],
              bias |-> [idx \in 0..(Len(cur) - 1) |-> Row("untrained", idx)],
              n_copies |-> 0])

\* self.load_decoder_weight(opt.load_decoder_from) is called.
LoadDecoderWeightCall ==
    /\ call # None
    /\ result = None
    /\ result' = Some(LoadDecoderWeight(call[1].tgt, call[1].pretrained_tgt))
    /\ UNCHANGED <<trainer, call>>

InitTransplant ==
    /\ NotRun
    /\ call \in { Some([tgt |-> cur, pretrained_tgt |-> pre]) :
                      cur \in Vocabularies, pre \in Vocabularies }
    /\ result = None

NextTransplant == LoadDecoderWeightCall

SpecTransplant == InitTransplant /\ [][NextTransplant]_vars

\* ---------------------------------------------------------------- C24

\* C24: after load_decoder_weight the embedding row and the output-bias
\* entry of every token of the current target vocabulary are those of the
\* pretrained model at the index the pretrained vocabulary gives the token,
\* if it holds the token, and the previous ones otherwise; the count printed
\* is the number of tokens the two vocabularies share.
C24_RowsCopiedByToken ==
    result # None =>
        LET cur == call[1].tgt
            pre == call[1].pretrained_tgt
        IN /\ \A k \in 1..Len(cur) :
                  IF \E j \in 1..Len(pre) : pre[j] = cur[k]
                  THEN \E j \in 1..Len(pre) :
                          /\ pre[j] = cur[k]
                          /\ result[1].word_emb[k - 1] = [of |-> "pretrained", idx |-> j - 1]
                          /\ result[1].bias[k - 1] = [of |-> "pretrained", idx |-> j - 1]
                  ELSE /\ result[1].word_emb[k - 1] = [of |-> "untrained", idx |-> k - 1]
                       /\ result[1].bias[k - 1] = [of |-> "untrained", idx |-> k - 1]
           /\ result[1].n_copies = Cardinality(TokensOfVocab(cur) \cap TokensOfVocab(pre))

\* A call on vocabularies of three tokens that share two, one of them at
\* different indices, after which one row is unchanged.
C24_Witness ==
    /\ result # None
    /\ call[1].tgt = <<"a", "b", "c">>
    /\ call[1].pretrained_tgt = <<"c", "a", "d">>
    /\ result[1].n_copies = 2
    /\ result[1].word_emb[0] = [of |-> "pretrained", idx |-> 1]
    /\ result[1].word_emb[1] = [of |-> "untrained", idx |-> 1]
    /\ result[1].word_emb[2] = [of |-> "pretrained", idx |-> 0]

\* ---------------------------------------------------------------- C33

\* The batches counted since the last update, NaN reset or start of the
\* epoch, the last batch handled included unless it was the update or reset.
Accumulating ==
    IF LastEvent.upd \/ LastEvent.res = "nan" THEN {}
    ELSE SinceZeroing(Len(hist))

\* C33: after every pass of the loop num_accumulated_words is the sum of
\* tgt_size, and counter the number, of the batches counted since the last
\* update, NaN reset or start of the epoch; an update is made only on a
\* counted batch, so never with nothing accumulated.
C33_CountersMatchAccumulatedBatches ==
    AfterBatch =>
        /\ num_accumulated_words = TokensOf(Accumulating)
        /\ counter = Cardinality(Accumulating)
        /\ LastEvent.upd => SinceZeroing(Len(hist)) # {}

\* The same of the token counter and of the updates alone.
C33_TokenCounterMatches ==
    AfterBatch =>
        /\ num_accumulated_words = TokensOf(Accumulating)
        /\ LastEvent.upd => SinceZeroing(Len(hist)) # {}

\* ---------------------------------------------------------------- C34

\* C34: in the gradient an update steps with, the gradient of every batch in
\* the buffers is divided by the accumulated target-token count if
\* normalize_gradient is on and by 1 if it is off: the division of the loss
\* by denom and the division by grad_denom leave nothing of denom.
C34_DenominatorCancels ==
    \A k \in 1..Len(hist) :
        hist[k].upd =>
            \A c \in AppliedAt(k).grad :
                c.coef = (IF opt.normalize_gradient
                          THEN Rat(1, TokensOf(SinceZeroing(k)))
                          ELSE Rat(1, 1))

\* A finished epoch with two updates, the first of two batches of 100 and 50
\* tokens.
C34_Witness ==
    /\ pc = "done"
    /\ Len(hist) = 3
    /\ UpdatesUpTo(3) = {2, 3}
    /\ TgtSizes(batches) = <<100, 50, 200>>
    /\ Cardinality(AppliedAt(2).grad) = 2
    /\ \A c \in AppliedAt(2).grad :
          c.coef = (IF opt.normalize_gradient THEN <<1, 150>> ELSE <<1, 1>>)

\* ---------------------------------------------------------------- C35

\* outputs['streaming_state'] of the forward pass on the batch at position
\* pos: the state the model returns for that batch, a value below 0 to tell
\* it from None (0) and from the states of init_stream() (1, 2, ...).
OutputsStreamingState(pos) == 0 - (pos + 1)

\* C35: in streaming mode a pass of the loop of train_epoch that is not
\* skipped for out-of-memory leaves in streaming_state the state the model
\* returned for its batch, which the next pass hands to the model; the state
\* is initialised anew only at the start of the epoch and after an
\* out-of-memory skip.
C35_StreamingStateCarriedOver ==
    [][(BatchStep /\ opt.streaming /\ NewEvent.res \in Recoverable) =>
          IF NewEvent.res \in OOM
          THEN streaming_state' = streaming_state + 1
          ELSE streaming_state' = OutputsStreamingState(NewEvent.pos)]_vars

\* What the code does instead: the state of the last init_stream() stays.
C35_StreamingStateKept ==
    [][(BatchStep /\ opt.streaming /\ NewEvent.res \in Recoverable) =>
          IF NewEvent.res \in OOM
          THEN streaming_state' = streaming_state + 1
          ELSE streaming_state' = streaming_state]_vars

\* ------------------------------------- runs with a NaN in an auxiliary loss

\* The batch outcomes of the runs below.
AuxOutcomes == {"ok", "nan", "nan_aux"}

\* An auxiliary loss is there to be NaN.
HasAuxLoss == opt.mirror_loss \/ opt.reconstruct

NextAux ==
    \/ RunStart
    \/ \E res \in WarmUpOutcomes : RunWarmUp(res)
    \/ RunInitialEval
    \/ TrainEpochBegin
    \/ \E res \in AuxOutcomes : (res = "nan_aux" => HasAuxLoss) /\ TrainStep(res)
    \/ TrainStepRaise
    \/ TrainEpochReturn
    \/ RunEpochEnd

SpecAux == InitLoss /\ [][NextAux]_vars

\* ---------------------------------------------------------------- C36

\* C36: a NaN in any term of the loss that is back-propagated, loss,
\* rev_loss, mirror_loss or rec_loss, is followed by the NaN reset: no
\* update is made on the batch, the buffers are zero after it and no update
\* steps with a gradient of a NaN loss.
C36_NaNInAnyTermIsReset ==
    /\ \A k \in 1..Len(applied) : \A c \in applied[k].grad : c.kind # "nan"
    /\ (AfterBatch /\ LastEvent.res = "nan_aux" /\ opt.cuda) =>
           ~LastEvent.upd /\ grad = {}

\* The same of a NaN in loss itself.
C36_NaNInLossIsReset ==
    (\A j \in 1..Len(hist) : hist[j].res # "nan_aux") =>
        /\ \A k \in 1..Len(applied) : \A c \in applied[k].grad : c.kind # "nan"
        /\ (AfterBatch /\ LastEvent.res = "nan") => ~LastEvent.upd /\ grad = {}

\* ---------------------------------------------------------------- C37

LastBatchAndEndOfEpoch(n, m) ==
    /\ m = n + 1
    /\ saved[n].iteration = n_samples - 1
    /\ saved[m].iteration < 0
    /\ saved[n].epoch = saved[m].epoch
    /\ saved[n].step = saved[m].step

MaxRatioLen == 4
MaxAdditionalData == 2

RatioChars == {"1", "2", "-", ";"}

RatioStrings == UNION { [1..n -> RatioChars] : n \in 0..MaxRatioLen }

AdditionalDataLists == { [j \in 1..n |-> j] : n \in 0..MaxAdditionalData }

\* str.split(";"): the pieces between the separators, empty ones included;
\* the empty string gives one empty piece.
RECURSIVE Split(_)
Split(s) ==
    IF \A k \in 1..Len(s) : s[k] # ";"
    THEN <<s>>
    ELSE LET k == CHOOSE k \in 1..Len(s) :
                      s[k] = ";" /\ \A j \in 1..(k - 1) : s[j] # ";"
         IN  <<SubSeq(s, 1, k - 1)>> \o Split(SubSeq(s, k + 1, Len(s)))

IsDigits(s) == Len(s) >= 1 /\ \A k \in 1..Len(s) : s[k] \in {"1", "2"}

\* The strings int() accepts: digits with an optional sign.
IsIntLiteral(s) ==
    \/ IsDigits(s)
    \/ Len(s) >= 2 /\ s[1] = "-" /\ IsDigits(Tail(s))

DigitValue(c) == IF c = "1" THEN 1 ELSE 2

RECURSIVE DigitsValue(_)
DigitsValue(s) ==
    IF s = <<>> THEN 0
    ELSE 10 * DigitsValue(SubSeq(s, 1, Len(s) - 1)) + DigitValue(s[Len(s)])

\* int(s) of a string it accepts.
IntOf(s) == IF s[1] = "-" THEN 0 - DigitsValue(Tail(s)) ELSE DigitsValue(s)

\* add_additional_data(d, ratio) (49-55) on a constructed trainer, whose
\* additional_data_ratio is [] (46-47): the two attributes after the call and
\* the exception it raised. With "-1", len(self.additional_data + 1) adds an
\* int to a list (52).
AddAdditionalData(d, ratio) ==
    IF ratio = <<"-", "1">>
    THEN [raised |-> "TypeError", additional_data |-> d,
          additional_data_ratio |-> <<>>]
    ELSE LET pieces == Split(ratio)
         IN  IF \E k \in 1..Len(pieces) : ~IsIntLiteral(pieces[k])
             THEN [raised |-> "ValueError", additional_data |-> d,
                   additional_data_ratio |-> <<>>]
             ELSE LET ratios == [k \in 1..Len(pieces) |-> IntOf(pieces[k])]
                  IN  [raised |-> IF Len(ratios) = Len(d) + 1 THEN ""
                                  ELSE "AssertionError",
                       additional_data |-> d,
                       additional_data_ratio |-> ratios]

AddAdditionalDataCall ==
    /\ call # None
    /\ result = None
    /\ result' = Some(AddAdditionalData(call[1].d, call[1].ratio))
    /\ UNCHANGED <<trainer, call>>

InitAddData ==
    /\ NotRun
    /\ call \in { Some([d |-> d, ratio |-> r]) :
                      d \in AdditionalDataLists, r \in RatioStrings }
    /\ result = None

NextAddData == AddAdditionalDataCall

SpecAddData == InitAddData /\ [][NextAddData]_vars

\* The ratio strings the claim speaks of: "-1", or integers separated by ';'.
RatioGiven(r) ==
    LET pieces == Split(r)
    IN  \A k \in 1..Len(pieces) : IsIntLiteral(pieces[k])

\* C38: for "-1", or a string of ';'-separated integers with one entry more
\* than there are additional datasets, add_additional_data returns and leaves
\* additional_data_ratio with len(additional_data) + 1 integers: all ones for
\* "-1", the given integers otherwise; a string with another number of
\* integers is rejected by the assertion.
C38_RatioHasOneEntryPerDataset ==
    (result # None /\ RatioGiven(call[1].ratio)) =>
        LET r == result[1]
            given == call[1].ratio
            pieces == Split(given)
            n == Len(call[1].d) + 1
        IN  /\ r.additional_data = call[1].d
            /\ given = <<"-", "1">> =>
                   /\ r.raised = ""
                   /\ r.additional_data_ratio = [k \in 1..n |-> 1]
            /\ (given # <<"-", "1">> /\ Len(pieces) = n) =>
                   /\ r.raised = ""
                   /\ r.additional_data_ratio =
                          [k \in 1..n |-> IntOf(pieces[k])]
            /\ (given # <<"-", "1">> /\ Len(pieces) # n) =>
                   r.raised = "AssertionError"

\* The part of C38 on explicit ratios: a string other than "-1" of n + 1
\* integers is stored as these integers, any other count is rejected.
C38_ExplicitRatiosStored ==
    (result # None /\ RatioGiven(call[1].ratio)
       /\ call[1].ratio # <<"-", "1">>) =>
        LET r == result[1]
            pieces == Split(call[1].ratio)
            n == Len(call[1].d) + 1
        IN  IF Len(pieces) = n
            THEN /\ r.raised = ""
                 /\ r.additional_data_ratio = [k \in 1..n |-> IntOf(pieces[k])]
            ELSE r.raised = "AssertionError"

\* ---------------------------------------------------------------- C39
\* _get_grads (trainer.py 137-149). model.named_parameters() is a list of
\* parameters; the name of the k-th is k, grad = NoGrad is p.grad is None.

MaxParams == 3

NoGrad == 0

GradValues == {1, 2}

NamedParameters ==
    UNION { { [k \in 1..n |-> [name |-> k, requires_grad |-> rg[k],
                               grad |-> g[k]]] :
                  rg \in [1..n -> BOOLEAN],
                  g \in [1..n -> GradValues \cup {NoGrad}] } :
            n \in 0..MaxParams }

\* 'Model parameter did not receive gradient: ' + name + '. ...' (143-147)
NoGradientMessage(name) ==
    [text |-> "Model parameter did not receive gradient", name |-> name]

\* Mutant: the gradient is looked at before requires_grad.
GetGradsFrom_GradFirst(ps, k, grads) ==
    IF \E j \in k..Len(ps) : ps[j].grad = NoGrad
    THEN LET j == CHOOSE j \in k..Len(ps) :
                      /\ ps[j].grad = NoGrad
                      /\ \A m \in k..(j - 1) : ps[m].grad # NoGrad
         IN  [raised |-> "RuntimeError", message |-> NoGradientMessage(ps[j].name),
              grads |-> <<>>]
    ELSE [raised |-> "", message |-> None,
          grads |-> grads \o
              [m \in 1..Len(SelectSeq(SubSeq(ps, k, Len(ps)),
                                      LAMBDA p : p.requires_grad)) |->
                  SelectSeq(SubSeq(ps, k, Len(ps)),
                            LAMBDA p : p.requires_grad)[m].grad]]

\* The loop of lines 139-148 from the k-th parameter on, grads being the list
\* built so far, and the return of line 149.
RECURSIVE GetGradsFrom(_, _, _)
GetGradsFrom(ps, k, grads) ==
    IF k > Len(ps)
    THEN [raised |-> "", message |-> None, grads |-> grads]
    ELSE IF ~ps[k].requires_grad
    THEN GetGradsFrom(ps, k + 1, grads)
    ELSE IF ps[k].grad = NoGrad
    THEN [raised |-> "RuntimeError", message |-> NoGradientMessage(ps[k].name),
          grads |-> <<>>]
    ELSE GetGradsFrom(ps, k + 1, Append(grads, ps[k].grad))

\* _get_grads (137-149)
GetGrads(ps) == GetGradsFrom(ps, 1, <<>>)

GetGradsCall ==
    /\ call # None
    /\ result = None
    /\ result' = Some(GetGrads(call[1]))
    /\ UNCHANGED <<trainer, call>>

InitGetGrads ==
    /\ NotRun
    /\ call \in { Some(ps) : ps \in NamedParameters }
    /\ result = None

NextGetGrads == GetGradsCall

SpecGetGrads == InitGetGrads /\ [][NextGetGrads]_vars

\* The trainable parameters without a gradient.
WithoutGradient(ps) ==
    { k \in 1..Len(ps) : ps[k].requires_grad /\ ps[k].grad = NoGrad }

\* The gradients of the trainable parameters, in the order of the parameters.
TrainableGrads(ps) ==
    LET trainable == SelectSeq(ps, LAMBDA p : p.requires_grad)
    IN  [m \in 1..Len(trainable) |-> trainable[m].grad]

\* C39: _get_grads returns the gradients of exactly the parameters with
\* requires_grad set, in the order of the parameters, and it raises an error
\* that names a trainable parameter without gradient (the first one) exactly
\* when there is such a parameter.
C39_GradsOfTrainableParameters ==
    result # None =>
        LET ps == call[1]
            r == result[1]
        IN  IF WithoutGradient(ps) = {}
            THEN /\ r.raised = ""
                 /\ r.grads = TrainableGrads(ps)
            ELSE /\ r.raised = "RuntimeError"
                 /\ r.message = NoGradientMessage(
                        CHOOSE k \in WithoutGradient(ps) :
                            \A j \in WithoutGradient(ps) : k <= j)

\* Three parameters, the second frozen and without gradient: the gradients
\* of the first and the third are returned in this order.
C39_Witness ==
    /\ result # None
    /\ Len(call[1]) = 3
    /\ call[1][1].requires_grad /\ call[1][1].grad = 2
    /\ ~call[1][2].requires_grad /\ call[1][2].grad = NoGrad
    /\ call[1][3].requires_grad /\ call[1][3].grad = 1
    /\ result[1].raised = ""
    /\ result[1].grads = <<2, 1>>

\* ---------------------------------------------------------------- C40
\* TransformerDecoder.step (Models.py 251-324), the time transformer of lines
\* 153-158. A buffer is None or Some(list); its first entry is the place of
\* the hidden state of the recurrent time transformer.

MaxLayers == 3

\* opt.time of the decoder (153-158)
DecoderTimes == {"positional_encoding", "gru", "lstm"}

HiddenStates == 0..2

InputTokens == 1..2

Buffers ==
    {None} \cup
    { Some(b) : b \in UNION { [1..n -> HiddenStates] : n \in 1..MaxLayers } }

\* nn.GRU / nn.LSTM called with an input and a previous hidden state
\* (prev_h = None: the initial state): emb[1], the new hidden state.
TimeTransformer(x, prev_h) == [x |-> x, prev_h |-> prev_h]

\* step (251-324): what is passed to the time transformer as the previous
\* state, the caller's buffer after line 282 and the exception raised.
\* buffer[0] of line 279 is evaluated when buffer is None, where it raises
\* TypeError; with a buffer prev_h is None. The layers (307-316) read the
\* buffer and do not change what the time transformer is given.
DecoderStep(time, x, buffer) ==
    IF time = "positional_encoding"
    THEN [raised |-> "", called |-> "time_transformer(emb, t)",
          prev_h |-> None, buffer |-> buffer]
    ELSE IF buffer = None
    THEN [raised |-> "TypeError", called |-> "", prev_h |-> None,
          buffer |-> buffer]
    ELSE [raised |-> "", called |-> "time_transformer(emb, prev_h)",
          prev_h |-> None,
          buffer |-> Some([buffer[1] EXCEPT ![1] = TimeTransformer(x, None)])]

DecoderStepCall ==
    /\ call # None
    /\ result = None
    /\ result' = Some(DecoderStep(call[1].time, call[1].input, call[1].buffer))
    /\ UNCHANGED <<trainer, call>>

InitDecoderStep ==
    /\ NotRun
    /\ call \in { Some([time |-> t, input |-> x, buffer |-> b]) :
                      t \in DecoderTimes, x \in InputTokens, b \in Buffers }
    /\ result = None

NextDecoderStep == DecoderStepCall

SpecDecoderStep == InitDecoderStep /\ [][NextDecoderStep]_vars

\* C40: with a recurrent time transformer, a step that is given a buffer
\* passes buffer[0], the hidden state the previous step stored, to the time
\* transformer, and a step that is given no buffer passes no previous state
\* and does not fail.
C40_PreviousHiddenStatePassed ==
    (result # None /\ call[1].time # "positional_encoding") =>
        LET r == result[1]
            buffer == call[1].buffer
        IN  /\ r.raised = ""
            /\ r.called = "time_transformer(emb, prev_h)"
            /\ r.prev_h = IF buffer = None THEN None ELSE Some(buffer[1][1])

\* What step does with a recurrent time transformer: it fails without a
\* buffer and passes no previous state with one.
C40_PreviousHiddenStateNeverPassed ==
    (result # None /\ call[1].time # "positional_encoding") =>
        LET r == result[1]
        IN  /\ r.prev_h = None
            /\ r.raised = IF call[1].buffer = None THEN "TypeError" ELSE ""

\* ---------------------------------------------------------- C31, C32
\* VDLoss.forward (VDLoss.py 111-183). The latent distributions are given by
\* their KL terms and entropies; generator(outputs) gives the scores.

MaxDists == 2

\* kl_lambda of the caller; 0.0 is the default (111).
KLLambdas == {Rat(0, 1), Rat(1, 2), Rat(1, 1)}

\* normalizer; 1 is the default (111).
Normalizers == {1, 2}

\* output_dict['kl'], one term for each of the len(output_dict['p_z'])
\* distributions.
KLTerms == UNION { [1..n -> 1..2] : n \in 1..MaxDists }

\* The entropy of each posterior q_z and of each prior p_z.
PosteriorEntropy == 1
PriorEntropy == 2

\* scores and targets of one position.
ForwardInputs == { x \in LossInputs : Len(x.targets) = 1 }

\* forward (111-183): the dictionary returned, the loss backward() is called
\* on, and the exception raised. kl_lambda is a parameter (111) that the body
\* does not read: lambda_ is 1.0 (160).
Forward(self, scores, targets, backward, normalizer, kl_lambda, kl_terms) ==
    LET computed == ComputeLoss(self, scores, targets)
        n_dists == Len(kl_terms)
        kl == SumOver(kl_terms, 1..n_dists)
        q_entropy == n_dists * PosteriorEntropy
        p_entropy == n_dists * PriorEntropy
        lambda_ == Rat(1, 1)
        loss == RatPlus(computed.smoothed_nll,
                        RatDiv(RatTimes(Rat(kl, 1), lambda_), Rat(n_dists, 1)))
    IN  IF computed.raised # ""
        THEN [raised |-> computed.raised, output |-> <<>>, backward |-> None]
        ELSE IF backward
        THEN [raised |-> "",
              output |-> [loss |-> loss, kl |-> kl, nll |-> computed.nll,
                          baseline |-> None, R |-> None, ce |-> None,
                          q_entropy |-> q_entropy, p_entropy |-> p_entropy],
              backward |-> Some(RatDiv(loss, Rat(normalizer, 1)))]
        ELSE [raised |-> "",
              output |-> [p_entropy |-> p_entropy, nll |-> computed.nll],
              backward |-> None]

ForwardCall ==
    /\ call # None
    /\ result = None
    /\ result' = Some(Forward(VDLossAttributes(OutputSize, call[1].label_smoothing),
                              call[1].scores, call[1].targets, call[1].backward,
                              call[1].normalizer, call[1].kl_lambda, call[1].kl))
    /\ UNCHANGED <<trainer, call>>

InitForward ==
    /\ NotRun
    /\ call \in { Some([label_smoothing |-> eps, scores |-> x.scores,
                        targets |-> x.targets, backward |-> b,
                        normalizer |-> n, kl_lambda |-> w, kl |-> kl]) :
                      eps \in LabelSmoothings, x \in ForwardInputs,
                      b \in BOOLEAN, n \in Normalizers, w \in KLLambdas,
                      kl \in KLTerms }
    /\ result = None

NextForward == ForwardCall

SpecForward == InitForward /\ [][NextForward]_vars

\* What _compute_loss returns on the scores and targets of the call.
ComputedOfCall ==
    ComputeLoss(VDLossAttributes(OutputSize, call[1].label_smoothing),
                call[1].scores, call[1].targets)

\* C31: every dictionary forward returns, with backward set or not, has the
\* differentiable smoothed loss and the raw NLL sum as two entries.
C31_ResultHasLossAndNLL ==
    (result # None /\ result[1].raised = "") =>
        /\ {"loss", "nll"} \subseteq DOMAIN result[1].output
        /\ result[1].output.nll = ComputedOfCall.nll

\* The part of C31 on training: with backward set the dictionary has both
\* entries; without, it has the raw NLL sum and no loss.
C31_TrainingResultHasLossAndNLL ==
    (result # None /\ result[1].raised = "") =>
        /\ "nll" \in DOMAIN result[1].output
        /\ result[1].output.nll = ComputedOfCall.nll
        /\ "loss" \in DOMAIN result[1].output <=> call[1].backward

\* The loss of the variational objective with KL weight w.
VariationalLoss(w) ==
    LET n_dists == Len(call[1].kl)
        kl == SumOver(call[1].kl, 1..n_dists)
    IN  RatPlus(ComputedOfCall.smoothed_nll,
                RatDiv(RatTimes(w, Rat(kl, 1)), Rat(n_dists, 1)))

\* C32: with backward set, the loss that is back-propagated is smoothed_nll +
\* kl_lambda * (sum of the KL terms) / (number of latent distributions),
\* kl_lambda being the weight the caller passed, over the normalizer.
C32_KLWeightedByKLLambda ==
    (result # None /\ result[1].raised = "" /\ call[1].backward) =>
        /\ result[1].output.loss = VariationalLoss(call[1].kl_lambda)
        /\ result[1].backward =
               Some(RatDiv(VariationalLoss(call[1].kl_lambda),
                           Rat(call[1].normalizer, 1)))

\* What forward back-propagates: the KL sum over the number of distributions
\* with weight 1, whatever kl_lambda is.
C32_KLWeightedByOne ==
    (result # None /\ result[1].raised = "" /\ call[1].backward) =>
        /\ result[1].output.loss = VariationalLoss(Rat(1, 1))
        /\ result[1].backward =
               Some(RatDiv(VariationalLoss(Rat(1, 1)), Rat(call[1].normalizer, 1)))

====
